---- MODULE Spec2Model ----
(***************************************************************************)
(* Model of src/src/python.cpp (reticulate's R <-> Python bridge).         *)
(*                                                                         *)
(* Part 1: the capsule lifetime bridge and the cross-thread dispatcher     *)
(*         (py_capsule_new, py_capsule_free, Rcpp_precious_remove_main_    *)
(*         thread, call_python_function_on_main_thread, the pending-call   *)
(*         queue of the Python runtime).                                   *)
(*                                                                         *)
(* Every C entry point modelled here runs with Python's global             *)
(* interpreter lock held: capsule destructors and rpycall methods are      *)
(* called by the interpreter, and the retry loops sleep with               *)
(* tthread::this_thread::sleep_for without releasing the lock.  The only   *)
(* point of a retry loop where the lock can change hands is the warning:   *)
(* PySys_WriteStderr calls sys.stderr.write, which may release the lock    *)
(* while it writes.                                                        *)
(***************************************************************************)
EXTENDS Integers, Naturals, Sequences, FiniteSets, TLC

\* ---------------------------------------------------------------- bounds
NCapsules == 2
NCalls == 2
NWorkers == 1
\* the call path retries without limit; the model stops failing its
\* enqueue after this many failed attempts
MaxCallAttempts == 1203
\* number of distinct Guest exception objects
NExc == 3

\* the value of getOption("warning.length"), the cap (R allows 100..8170)
CapLow == 100
\* the longest message has this many bytes more than the cap
MaxOver == 2
\* the most newlines in a message
MaxNewlines == 2

\* the most round trips of the opaque object
MaxRoundTrips == 4
\* the most references the Guest holds to the object before the first
MaxOtherRefs == 2

\* the deepest protect stack at the entry of py_fetch_error
MaxProtected == 8
\* the most elements of a Guest container
MaxElems == 3
\* the most entries of a Guest mapping
MaxEntries == 3
\* the longest Host logical vector
MaxLogicals == 4

\* C integer widths, scaled down: the bits of the Host's int storage
\* (32 in the program) and of a C long (64 in the program)
IntBits == 8
LongBits == 16
\* the Guest integers tried lie within IntSpread of a power of two that
\* bounds int or long, or of zero
IntSpread == 2

\* ------------------------------------------------------ program constants
wait_ms == 100
warn_every_ms == 60000
ceiling_ms == 60000 * 2
\* "<...truncated...>"
trunc_size == 17
\* the `+ 20` of the tail offset
accruals == 20

\* ------------------------------------------------------------------ sets
MainThread == <<"main", 0>>
Workers == {<<"worker", i>> : i \in 1..NWorkers}
Threads == {MainThread} \cup Workers
NoThread == <<"none", 0>>

Capsules == 1..NCapsules
Calls == 1..NCalls
NoObj == 0

Excs == 1..NExc
NoExc == 0
NoAttr == 0

FreeSexpEntries == {<<"free_sexp", c>> : c \in Capsules}
CallEntries == {<<"call_python_function", k>> : k \in Calls}
Entries == FreeSexpEntries \cup CallEntries

VARIABLES
  s_main_thread,          \* tthread id recorded by py_initialize, NoThread before
  s_is_python_initialized,
  gil,                    \* holder of the interpreter lock inside a retry loop
  pc,                     \* per thread: "idle", "fin_loop", "call_loop"
  obj,                    \* per thread: the capsule / call the loop is about
  waited_ms,              \* per thread: the loop's local waited_ms
  capsule,                \* per capsule: "none", "alive", "freed"
  preserved,              \* capsules whose SEXP currently is a precious root
  removes,                \* per capsule: number of Rcpp_precious_remove runs
  removedBy,              \* per capsule: set of threads that ran the removal
  abandoned,              \* entries whose enqueue was given up (error logged)
  pending,                \* Python's pending-call queue, a bag of entries
  callObj,                \* per call: "none", "live", "deleted" (PythonCall)
  deletes,                \* per call: number of `delete call`
  enqueued,               \* entries for which Py_AddPendingCall returned 0
  runs,                   \* per entry: number of times the interpreter ran it
  counter,                \* incremented by every call body
  returned,               \* calls whose entry point has returned Py_None
  \* ---- part 2: Guest error state and the exception translator
  errIndicator,           \* the Guest error indicator: NoExc or an exception
  pythonInterruptsPending,
  interruptsPending,
  epc,                    \* "idle", or "failed": a Guest API call signalled
                          \* failure and py_fetch_error is about to be called
  ctx,                    \* entry point the failure occurred in
  lastOp,                 \* the bridge operation entered last
  outcome,                \* how the last bridge operation ended
  callResult,             \* what it handed to the Guest, if call_r_function
  touchedBy,              \* the code that fetched, cleared or restored the
                          \* Guest error indicator in the last step, or "none"
  py_last_exception,      \* .globals$py_last_exception
  raised,                 \* exception objects that exist
  context,                \* per exception: its __context__, or NoExc
  excCall,                \* per exception: its `call` attribute, or NoAttr
  excTrace,               \* per exception: its `trace` attribute, or NoAttr
  \* ---- part 3: conditionMessage_from_py_exception
  mpc,                    \* "idle", "called", "returned"
  formatted,              \* how far the formatting got: FormatOk, or the
                          \* step (1..3) that returned NULL
  error,                  \* the text built from the formatted lines and hint
  max_msg_len,            \* getOption("warning.length")
  message,                \* what the call returned, or that it threw
  \* ---- part 4: py_to_r and r_to_py_cpp
  cpc,                    \* "idle", "py_to_r", "r_to_py_cpp", "done"
  x,                      \* the Guest value handed to py_to_r
  convert,                \* the convert argument
  rvalue,                 \* the Host value py_to_r returned
  yvalue,                 \* the Guest value r_to_py_cpp returned for rvalue
  \* ---- part 5: references to one opaque Guest object
  ob_refcnt,              \* its Guest reference count
  ob_refcnt0,             \* its reference count before the first round trip
  wrappers,               \* live Host wrappers (PyObjectRef) around it
  returnedRefs,           \* references returned by r_to_py_cpp, not yet
                          \* released by their owner
  trips,                  \* round trips made
  \* ---- part 7: one run of the finalizer's retry loop
  fpc,                    \* "idle", "loop", "enqueued", "abandoned"
  fin_waited_ms,          \* waited_ms of that run
  failed,                 \* failed attempts of that run
  warnings,               \* "Waiting to schedule ..." lines written
  errors,                 \* "Error: unable to register ..." lines written
  \* ---- part 8: narrow_array_typenum
  npc,                    \* "idle", "called", "stopped", "used", "renarrowed"
  caller,                 \* the function that narrows
  typenum,                \* the kind of the array or scalar
  narrowed,               \* what narrow_array_typenum returned for it
  used,                   \* what the caller made of the narrowed kind
  renarrowed,             \* narrow_array_typenum of the narrowed kind
  \* ---- part 9: arrays made by r_to_py_numpy
  ndarray,                \* per Host value: "none", "alive", "released",
                          \* "unreturned"
  base,                   \* per array: a base capsule was installed
  sexptype,               \* per Host value: its type, once converted
  \* ---- part 10: a Host logical vector
  lpc,                    \* "idle", "r_to_py_cpp", "done"
  lgl,                    \* LOGICAL(sexp)
  dim,                    \* whether it has a dim attribute
  pyLgl,                  \* the Guest value made for it: its kind, its truth values
  \* ---- part 11: py_to_r of a mapping
  dpc,                    \* "idle", "py_to_r", "done"
  mapBranch,              \* the test of py_to_r the mapping passes
  mapping,                \* its entries <<key, value>> in iteration order
  rlist,                  \* the Host list returned, or that py_to_r stopped
  \* ---- part 12: references to the elements of a container
  kpc,                    \* "idle", "py_to_r", "returned", "stopped"
  branch,                 \* the test of py_to_r the container passes
  elems,                  \* the kinds of its elements
  el_refcnt,              \* the reference count of each element
  el_owned,               \* per element: references owned by Host wrappers
  temps,                  \* references to temporaries the bridge still holds
  \* ---- part 13: the protect stack in py_fetch_error
  ppc,                    \* "idle", "trace", "call", "returned", "imbalance"
  hasTrace,               \* the exception has a `trace` attribute
  hasCall,                \* the exception has a `call` attribute
  callBuilt,              \* the static call of get_current_call is built
  depth0,                 \* depth of the protect stack at entry
  depth                   \* its depth now

dispVars == <<s_main_thread, s_is_python_initialized, gil, pc, obj, waited_ms,
              capsule, preserved, removes, removedBy, abandoned, pending,
              callObj, deletes, enqueued, runs, counter, returned>>

errVars == <<errIndicator, pythonInterruptsPending, interruptsPending, epc,
             ctx, lastOp, outcome, callResult, touchedBy, py_last_exception,
             raised, context, excCall, excTrace>>

msgVars == <<mpc, formatted, error, max_msg_len, message>>

convVars == <<cpc, x, convert, rvalue, yvalue>>

refVars == <<ob_refcnt, ob_refcnt0, wrappers, returnedRefs, trips>>

finVars == <<fpc, fin_waited_ms, failed, warnings, errors>>

narrowVars == <<npc, caller, typenum, narrowed, used, renarrowed>>

numpyVars == <<ndarray, base, sexptype>>

lglVars == <<lpc, lgl, dim, pyLgl>>

mapVars == <<dpc, mapBranch, mapping, rlist>>

elemVars == <<kpc, branch, elems, el_refcnt, el_owned, temps>>

protVars == <<ppc, hasTrace, hasCall, callBuilt, depth0, depth>>

vars == <<dispVars, errVars, msgVars, convVars, refVars,
         finVars,
         narrowVars,
         numpyVars,
         lglVars,
         mapVars,
         elemVars,
         protVars>>

\* ------------------------------------------------------------- helpers
FreeSexp(c) == <<"free_sexp", c>>
CallPy(k) == <<"call_python_function", k>>

is_main_thread_unset(t) == TRUE

is_main_thread(t) ==
  IF s_main_thread = NoThread THEN TRUE ELSE s_main_thread = t

AddPendingTwice(q, e) == [q EXCEPT ![e] = @ + 2]

\* Py_AddPendingCall(fn, arg) returning 0: one more entry in the queue
AddPending(q, e) == [q EXCEPT ![e] = @ + 1]

\* the interpreter takes one entry off the queue to run it
TakePending(q, e) == [q EXCEPT ![e] = @ - 1]

Rcpp_precious_preserve_dropped(c) == UNCHANGED preserved

\* Rcpp_precious_preserve(object)
Rcpp_precious_preserve(c) == preserved' = preserved \cup {c}

\* Rcpp_precious_remove(object), run by thread t
Rcpp_precious_remove(t, c) ==
  /\ preserved' = preserved \ {c}
  /\ removes' = [removes EXCEPT ![c] = @ + 1]
  /\ removedBy' = [removedBy EXCEPT ![c] = @ \cup {t}]

Idle(t) == gil = NoThread /\ pc[t] = "idle"

\* thread t leaves its retry loop
LeaveLoop(t) ==
  /\ pc' = [pc EXCEPT ![t] = "idle"]
  /\ obj' = [obj EXCEPT ![t] = NoObj]
  /\ waited_ms' = [waited_ms EXCEPT ![t] = 0]
  /\ gil' = NoThread

\* thread t has slept and goes round its retry loop again, having waited w
\* in total; a warning is written when w is a whole number of minutes
Retry(t, w) ==
  /\ waited_ms' = [waited_ms EXCEPT ![t] = w]
  /\ gil' = IF w % warn_every_ms = 0 THEN NoThread ELSE t
  /\ UNCHANGED <<pc, obj>>

\* ---------------------------------------------------------------- Init
InitDisp ==
  /\ s_main_thread = NoThread
  /\ s_is_python_initialized = FALSE
  /\ gil = NoThread
  /\ pc = [t \in Threads |-> "idle"]
  /\ obj = [t \in Threads |-> NoObj]
  /\ waited_ms = [t \in Threads |-> 0]
  /\ capsule = [c \in Capsules |-> "none"]
  /\ preserved = {}
  /\ removes = [c \in Capsules |-> 0]
  /\ removedBy = [c \in Capsules |-> {}]
  /\ abandoned = {}
  /\ pending = [e \in Entries |-> 0]
  /\ callObj = [k \in Calls |-> "none"]
  /\ deletes = [k \in Calls |-> 0]
  /\ enqueued = {}
  /\ runs = [e \in Entries |-> 0]
  /\ counter = 0
  /\ returned = {}

\* ------------------------------------------------------------- actions

\* py_initialize, called by R on its own thread
py_initialize ==
  /\ ~s_is_python_initialized
  /\ s_main_thread' = MainThread
  /\ s_is_python_initialized' = TRUE
  /\ UNCHANGED <<gil, pc, obj, waited_ms, capsule, preserved, removes,
                 removedBy, abandoned, pending, callObj, deletes, enqueued, runs, counter, returned>>

\* py_capsule_new / r_extptr_capsule: preserve the SEXP, create the capsule
py_capsule_new(c) ==
  /\ s_is_python_initialized
  /\ Idle(MainThread)
  /\ capsule[c] = "none"
  /\ Rcpp_precious_preserve(c)
  /\ capsule' = [capsule EXCEPT ![c] = "alive"]
  /\ UNCHANGED <<s_main_thread, s_is_python_initialized, gil, pc, obj,
                 waited_ms, removes, removedBy, abandoned, pending, callObj,
                 deletes, enqueued, runs, counter, returned>>

\* py_capsule_free / free_r_extptr_capsule on thread t, up to the first
\* Py_AddPendingCall of Rcpp_precious_remove_main_thread
py_capsule_free(t, c) ==
  /\ Idle(t)
  /\ capsule[c] = "alive"
  /\ capsule' = [capsule EXCEPT ![c] = "freed"]
  /\ IF is_main_thread(t)
       THEN /\ Rcpp_precious_remove(t, c)
            /\ UNCHANGED <<gil, pc, obj, waited_ms>>
       ELSE /\ gil' = t
            /\ pc' = [pc EXCEPT ![t] = "fin_loop"]
            /\ obj' = [obj EXCEPT ![t] = c]
            /\ waited_ms' = [waited_ms EXCEPT ![t] = 0]
            /\ UNCHANGED <<preserved, removes, removedBy>>
  /\ UNCHANGED <<s_main_thread, s_is_python_initialized, abandoned, pending,
                 callObj, deletes, enqueued, runs, counter, returned>>

FinGiveUpLate(w) == w > warn_every_ms * 3

\* the `else if (waited_ms > 60000 * 2)` test of the finalizer loop
FinGiveUp(w) == w > ceiling_ms

\* one iteration of the while loop of Rcpp_precious_remove_main_thread
Rcpp_precious_remove_main_thread(t) ==
  /\ pc[t] = "fin_loop"
  /\ gil \in {t, NoThread}
  /\ \E ok \in BOOLEAN :
       IF ok
         THEN \* Py_AddPendingCall(free_sexp, object) == 0: the loop ends
              /\ pending' = AddPending(pending, FreeSexp(obj[t]))
              /\ enqueued' = enqueued \cup {FreeSexp(obj[t])}
              /\ LeaveLoop(t)
              /\ UNCHANGED abandoned
         ELSE LET w == waited_ms[t] + wait_ms IN
              IF w % warn_every_ms # 0 /\ FinGiveUp(w)
                THEN \* error message, return without having enqueued
                     /\ abandoned' = abandoned \cup {FreeSexp(obj[t])}
                     /\ LeaveLoop(t)
                     /\ UNCHANGED <<pending, enqueued>>
                ELSE /\ Retry(t, w)
                     /\ UNCHANGED <<pending, enqueued, abandoned>>
  /\ UNCHANGED <<s_main_thread, s_is_python_initialized, capsule, preserved,
                 removes, removedBy, callObj, deletes, runs,
                 counter, returned>>

\* call_python_function_on_main_thread on thread t, up to the loop:
\* `new PythonCall(func, data)`
call_python_function_on_main_thread(t, k) ==
  /\ s_is_python_initialized
  /\ Idle(t)
  /\ callObj[k] = "none"
  /\ callObj' = [callObj EXCEPT ![k] = "live"]
  /\ gil' = t
  /\ pc' = [pc EXCEPT ![t] = "call_loop"]
  /\ obj' = [obj EXCEPT ![t] = k]
  /\ waited_ms' = [waited_ms EXCEPT ![t] = 0]
  /\ UNCHANGED <<s_main_thread, s_is_python_initialized, capsule, preserved,
                 removes, removedBy, abandoned, pending, deletes, enqueued,
                 runs, counter, returned>>

CallEnqueuedLost(t) ==
  /\ returned' = returned \cup {obj[t]}
  /\ LeaveLoop(t)
  /\ UNCHANGED <<pending, enqueued>>

\* Py_AddPendingCall(call_python_function, call) == 0: break out of the
\* loop and return Py_None
CallEnqueued(t) ==
  /\ pending' = AddPending(pending, CallPy(obj[t]))
  /\ enqueued' = enqueued \cup {CallPy(obj[t])}
  /\ returned' = returned \cup {obj[t]}
  /\ LeaveLoop(t)

CallFailedGivesUp(t, w) ==
  IF w > ceiling_ms
    THEN /\ returned' = returned \cup {obj[t]}
         /\ LeaveLoop(t)
         /\ UNCHANGED <<pending, enqueued>>
    ELSE /\ Retry(t, w)
         /\ UNCHANGED <<pending, enqueued, returned>>

\* Py_AddPendingCall failed: sleep, add to waited_ms, warn every minute,
\* go round again
CallFailed(t, w) ==
  /\ Retry(t, w)
  /\ UNCHANGED <<pending, enqueued, returned>>

\* one iteration of the while(true) loop of
\* call_python_function_on_main_thread
CallLoop(t) ==
  /\ pc[t] = "call_loop"
  /\ gil \in {t, NoThread}
  /\ \E ok \in BOOLEAN :
       IF ok
         THEN CallEnqueued(t)
         ELSE /\ waited_ms[t] < MaxCallAttempts * wait_ms
              /\ CallFailed(t, waited_ms[t] + wait_ms)
  /\ UNCHANGED <<s_main_thread, s_is_python_initialized, capsule, preserved,
                 removes, removedBy, abandoned, callObj, deletes, runs, counter>>

\* free_sexp, run by the interpreter on thread t
free_sexp(t, c) ==
  /\ Rcpp_precious_remove(t, c)
  /\ UNCHANGED <<callObj, deletes, counter>>

DeleteCallDropped(k) == UNCHANGED <<callObj, deletes>>

\* `delete call`: ~PythonCall releases func and data
DeleteCall(k) ==
  /\ callObj' = [callObj EXCEPT ![k] = "deleted"]
  /\ deletes' = [deletes EXCEPT ![k] = @ + 1]

\* call_python_function, run by the interpreter: call the function (its
\* body increments the counter), delete the call object
call_python_function(k) ==
  /\ counter' = counter + 1
  /\ DeleteCall(k)
  /\ UNCHANGED <<preserved, removes, removedBy>>

\* the interpreter's main thread runs one pending call at a safe point
MakePendingCall(e) ==
  /\ s_is_python_initialized
  /\ Idle(MainThread)
  /\ pending[e] > 0
  /\ pending' = TakePending(pending, e)
  /\ runs' = [runs EXCEPT ![e] = @ + 1]
  /\ IF e[1] = "free_sexp"
       THEN free_sexp(MainThread, e[2])
       ELSE call_python_function(e[2])
  /\ UNCHANGED <<s_main_thread, s_is_python_initialized, gil, pc, obj,
                 waited_ms, capsule, abandoned, enqueued,
                 returned>>

NextDisp ==
  \/ py_initialize
  \/ \E c \in Capsules : py_capsule_new(c)
  \/ \E t \in Threads, c \in Capsules : py_capsule_free(t, c)
  \/ \E t \in Threads : Rcpp_precious_remove_main_thread(t)
  \/ \E t \in Threads, k \in Calls : call_python_function_on_main_thread(t, k)
  \/ \E t \in Threads : CallLoop(t)
  \/ \E e \in Entries : MakePendingCall(e)

(***************************************************************************)
(* Part 2: the Guest error indicator and the exception translator.         *)
(* All of it runs on the R thread.  PyObject_GetAttrString and             *)
(* PyObject_HasAttrString are modelled by their results.                   *)
(***************************************************************************)

NoResult == <<"none", "-", "-">>
Escaped == <<"escaped", "-", "-">>
Reported == {"condition", "interrupt", "unknown"}
NoFailure == 0

InitErr ==
  /\ errIndicator = NoExc
  /\ pythonInterruptsPending = FALSE
  /\ interruptsPending = FALSE
  /\ epc = "idle"
  /\ ctx = "none"
  /\ lastOp = "none"
  /\ outcome = "none"
  /\ callResult = NoResult
  /\ touchedBy = "none"
  /\ py_last_exception = NoExc
  /\ raised = {}
  /\ context = [e \in Excs |-> NoExc]
  /\ excCall = [e \in Excs |-> NoAttr]
  /\ excTrace = [e \in Excs |-> NoAttr]

\* a bridge operation may start: no failure is waiting to be fetched
Ready == s_is_python_initialized /\ epc = "idle"

\* the outcome of a Guest API call: NoFailure, the exception it raises, or
\* NoException when it signals failure without having set one
NoException == -1
GuestResults == {NoFailure, NoException} \cup Excs

\* the Guest error indicator after a Guest API call with result r
Left(r) == IF r \in Excs THEN r ELSE errIndicator

\* Guest code raises e: a new exception object, created while some
\* exception c is being handled (c = NoExc: none), or an existing one.
\* Exception objects are interchangeable, so new ones are numbered in
\* the order of their creation.
Raise(e) ==
  IF e \notin Excs \/ e \in raised
    THEN UNCHANGED <<raised, context>>
    ELSE /\ e = Cardinality(raised) + 1
         /\ raised' = raised \cup {e}
         /\ \E c \in raised \cup {NoExc} :
              context' = [context EXCEPT ![e] = c]

\* the bridge is about to call py_fetch_error inside entry point where
FailedIn(where) ==
  /\ epc' = "failed"
  /\ ctx' = where
  /\ UNCHANGED outcome

\* the operation ended without reporting a failure
Ended(how) ==
  /\ outcome' = how
  /\ UNCHANGED <<epc, ctx>>

\* the signal handler of signals.h: an interrupt was delivered
interrupt_handler ==
  /\ s_is_python_initialized
  /\ ~pythonInterruptsPending
  /\ pythonInterruptsPending' = TRUE
  /\ interruptsPending' = TRUE
  /\ UNCHANGED <<errIndicator, epc, ctx, lastOp, outcome, callResult,
                 touchedBy, py_last_exception, raised, context, excCall,
                 excTrace>>

ContextAttrsOneLink(tmp) ==
  LET c == context[tmp] IN
  IF c = NoExc THEN <<NoAttr, NoAttr>> ELSE <<excCall[c], excTrace[c]>>

\* the walk of the __context__ chain in py_fetch_error: the `call` and
\* `trace` of the first exception below tmp that has either
RECURSIVE ContextAttrs(_)
ContextAttrs(tmp) ==
  LET c == context[tmp] IN
  IF c = NoExc THEN <<NoAttr, NoAttr>>
  ELSE IF excCall[c] # NoAttr \/ excTrace[c] # NoAttr
    THEN <<excCall[c], excTrace[c]>>
    ELSE ContextAttrs(c)

\* `call` and `trace` of e after the chain walk
Forwarded(e) ==
  IF excCall[e] # NoAttr
    THEN <<excCall[e], excTrace[e]>>
    ELSE LET f == ContextAttrs(e) IN
         << IF f[1] # NoAttr THEN f[1] ELSE excCall[e],
            IF f[2] # NoAttr THEN f[2] ELSE excTrace[e] >>

CapturedNothing(e) == NoAttr

\* the capsule made by py_capsule_new at the fetch of e
CapturedAt(e) == e

\* `call` and `trace` of e when py_fetch_error returns
Annotated(e) ==
  LET f == Forwarded(e) IN
  << IF f[1] # NoAttr THEN f[1] ELSE CapturedAt(e),
     IF f[2] # NoAttr THEN f[2] ELSE CapturedAt(e) >>

\* the test `if (reticulate::signals::getPythonInterruptsPending())`
InterruptForwarded == pythonInterruptsPending

ClearInterruptFlagsDropped ==
  /\ interruptsPending' = FALSE
  /\ UNCHANGED pythonInterruptsPending

\* the two set...Pending(false) calls of the interrupt branch
ClearInterruptFlags ==
  /\ interruptsPending' = FALSE
  /\ pythonInterruptsPending' = FALSE

IndicatorAfterFetchKept(interrupted) ==
  IF interrupted THEN errIndicator ELSE NoExc

\* the Guest error indicator after PyErr_Clear (interrupt branch) or
\* PyErr_Fetch (otherwise)
IndicatorAfterFetch(interrupted) == NoExc

cond_stale(e) == IF py_last_exception # NoExc THEN py_last_exception ELSE e

\* the condition `cond` that wraps the fetched exception value e and is
\* assigned to py_last_exception in .globals
cond(e) == e

\* py_fetch_error, called where a Guest API call has signalled failure;
\* what it returns is thrown (as PythonException) by its caller
py_fetch_error ==
  /\ epc = "failed"
  /\ epc' = "idle"
  /\ ctx' = "none"
  /\ callResult' = IF ctx = "call_r_function" THEN Escaped ELSE NoResult
  /\ touchedBy' = "py_fetch_error"
  /\ errIndicator' = IndicatorAfterFetch(InterruptForwarded)
  /\ IF InterruptForwarded
       THEN /\ ClearInterruptFlags
            /\ outcome' = "interrupt"
            /\ UNCHANGED <<py_last_exception, excCall, excTrace>>
       ELSE IF errIndicator = NoExc
         THEN /\ outcome' = "unknown"
              /\ UNCHANGED <<py_last_exception, excCall, excTrace,
                             pythonInterruptsPending, interruptsPending>>
         ELSE LET e == errIndicator
                  a == Annotated(e) IN
              /\ excCall' = [excCall EXCEPT ![e] = a[1]]
              /\ excTrace' = [excTrace EXCEPT ![e] = a[2]]
              /\ py_last_exception' = cond(e)
              /\ outcome' = "condition"
              /\ UNCHANGED <<pythonInterruptsPending, interruptsPending>>
  /\ UNCHANGED <<lastOp, raised, context>>

\* py_clear_error
py_clear_error ==
  /\ Ready
  /\ lastOp' = "py_clear_error"
  /\ errIndicator' = NoExc
  /\ touchedBy' = "py_clear_error"
  /\ callResult' = NoResult
  /\ Ended("ok")
  /\ UNCHANGED <<pythonInterruptsPending, interruptsPending,
                 py_last_exception, raised, context, excCall, excTrace>>

\* py_list_length: the result of PyList_Size is not checked; on a value
\* that is not a list it sets the indicator (r = the SystemError) and
\* -1 is returned
py_list_length(r) ==
  /\ Ready
  /\ lastOp' = "py_list_length"
  /\ Raise(r)
  /\ r # NoException
  /\ errIndicator' = Left(r)
  /\ touchedBy' = "none"
  /\ callResult' = NoResult
  /\ Ended("ok")
  /\ UNCHANGED <<pythonInterruptsPending, interruptsPending,
                 py_last_exception, excCall, excTrace>>

\* PyErrorScopeGuard: the indicator after the scope, given the indicator
\* fetched by the constructor and the one the body left behind
PyErrorScopeGuard(saved, left) == saved

\* py_get_attr_impl (py_get_item_impl is alike); r is the result of
\* PyObject_GetAttrString
py_get_attr_impl(silent, r) ==
  /\ Ready
  /\ lastOp' = "py_get_attr_impl"
  /\ Raise(r)
  /\ callResult' = NoResult
  /\ touchedBy' = IF silent THEN "PyErrorScopeGuard" ELSE "none"
  /\ IF silent
       THEN /\ errIndicator' =
                 PyErrorScopeGuard(errIndicator, IF r \in Excs THEN r ELSE NoExc)
            /\ Ended(IF r = NoFailure THEN "ok" ELSE "default")
       ELSE IF r = NoFailure
         THEN /\ Ended("ok")
              /\ UNCHANGED errIndicator
         ELSE /\ errIndicator' = Left(r)
              /\ FailedIn("export")
  /\ UNCHANGED <<pythonInterruptsPending, interruptsPending,
                 py_last_exception, excCall, excTrace>>

\* py_len_impl; r is the result of PyObject_Size
py_len_impl(hasDefault, r) ==
  /\ Ready
  /\ lastOp' = "py_len_impl"
  /\ Raise(r)
  /\ callResult' = NoResult
  /\ touchedBy' = IF hasDefault THEN "py_len_impl" ELSE "none"
  /\ IF r = NoFailure
       THEN \* the error fetched at entry is not restored on this path
            /\ errIndicator' = IF hasDefault THEN NoExc ELSE errIndicator
            /\ Ended("ok")
       ELSE IF hasDefault
         THEN \* PyErr_Restore of what was fetched at entry
              /\ errIndicator' = errIndicator
              /\ Ended("default")
         ELSE /\ errIndicator' = Left(r)
              /\ FailedIn("export")
  /\ UNCHANGED <<pythonInterruptsPending, interruptsPending,
                 py_last_exception, excCall, excTrace>>

\* the (value, exception) pair built by the try/catch of call_r_function
ResultPair(rOutcome) ==
  CASE rOutcome = "value"     -> <<"pair", "value", "null">>
    [] rOutcome = "r_error"   -> <<"pair", "null", "exception">>
    [] rOutcome = "interrupt" -> <<"pair", "null", "KeyboardInterrupt">>
    [] rOutcome = "exception" -> <<"pair", "null", "what">>
    [] OTHER                  -> <<"pair", "null", "(Unknown exception occurred)">>

ROutcomes == {"value", "r_error", "interrupt", "exception", "unknown"}

\* call_r_function(self, args, keywords).  r is the result of the Guest
\* API work done before the try block: py_capsule_read of args[0] (which
\* fails when it is not an r_object capsule) and, with convert, py_to_r
\* of the arguments and keywords.  rOutcome is how Rf_eval ends.
call_r_function(r, rOutcome) ==
  /\ Ready
  /\ lastOp' = "call_r_function"
  /\ Raise(r)
  /\ touchedBy' = "none"
  /\ IF r # NoFailure
       THEN \* throw PythonException(py_fetch_error()), outside the try
            /\ errIndicator' = Left(r)
            /\ FailedIn("call_r_function")
            /\ callResult' = NoResult
       ELSE /\ callResult' = ResultPair(rOutcome)
            /\ Ended("ok")
            /\ UNCHANGED errIndicator
  /\ UNCHANGED <<pythonInterruptsPending, interruptsPending,
                 py_last_exception, excCall, excTrace>>

NextErr ==
  \/ interrupt_handler
  \/ py_fetch_error
  \/ py_clear_error
  \/ \E r \in GuestResults : py_list_length(r)
  \/ \E s \in BOOLEAN, r \in GuestResults : py_get_attr_impl(s, r)
  \/ \E d \in BOOLEAN, r \in GuestResults : py_len_impl(d, r)
  \/ \E r \in GuestResults, o \in ROutcomes : call_r_function(r, o)

(***************************************************************************)
(* Part 3: conditionMessage_from_py_exception.                             *)
(*                                                                         *)
(* A text is a sequence of bytes.  The function only looks for newline     *)
(* bytes, so every other byte of the input is modelled as a value of its   *)
(* own (its position): equal prefixes and suffixes of the output and the   *)
(* input are then equal byte for byte.  The bytes of literal strings are   *)
(* negative numbers.  Positions and counts are those of std::string,       *)
(* counted from 0.                                                         *)
(***************************************************************************)

NL == 0

\* the text of length n whose newlines are at the positions in nls
Text(n, nls) == [i \in 1..n |-> IF (i - 1) \in nls THEN NL ELSE i]

\* a literal string of n bytes, the k-th literal of the function
Literal(k, n) == [i \in 1..n |-> 0 - (k * 100 + i)]

trunc == Literal(0, trunc_size)

FormatOk == 0
\* the three early returns "<unknown python exception, ...>"
Unknown(k) ==
  CASE k = 1 -> Literal(1, 54)
    [] k = 2 -> Literal(2, 57)
    [] OTHER -> Literal(3, 61)

Caps == {CapLow}

\* the subsets of S with at most k elements
RECURSIVE SmallSets(_, _)
SmallSets(S, k) ==
  IF k = 0 THEN {{}}
  ELSE LET r == SmallSets(S, k - 1) IN r \cup {u \cup {a} : u \in r, a \in S}

\* where the newlines of a text of n bytes are: the two newlines the
\* function looks for can be anywhere (or be missing), further newlines
\* are at the end of the text
NewlineSets(n) ==
  { u \cup ((n - j)..(n - 1)) :
      u \in SmallSets(0..(n - 1), 2), j \in 0..(MaxNewlines - 2) }

\* the texts handed to the truncation: built by concatenating the lines
\* of traceback.format_exception_only and the hint
Errors(cap) ==
  UNION { {Text(n, nls) : nls \in NewlineSets(n)} :
          n \in (cap - 1)..(cap + MaxOver) }

OutOfRange == <<"std::out_of_range">>
Returned(text) == <<"string", text>>
NoMessage == <<"none">>

\* std::string::npos converted to int
npos == 0 - 1

\* error.find("\n", pos) converted to int
find(s, pos) ==
  LET hits == {i \in pos..(Len(s) - 1) : s[i + 1] = NL} IN
  IF hits = {} THEN npos
  ELSE CHOOSE i \in hits : \A j \in hits : i <= j

\* s.substr(pos, count); pos beyond the size throws std::out_of_range
substr(s, pos, count) ==
  IF pos > Len(s) THEN OutOfRange
  ELSE Returned(SubSeq(s, pos + 1,
                       IF pos + count > Len(s) THEN Len(s) ELSE pos + count))

TailStartNoMarker(over, head_size) == over + head_size

\* the start of the kept tail
TailStart(over, head_size) == over + head_size + trunc_size + accruals

\* the block `if (error.size() > max_msg_len) { ... }`
Truncated(err, cap) ==
  LET over == Len(err) - cap
      first_line_end_pos == find(err, 0)
      second_line_start_pos == find(err, first_line_end_pos + 1)
      head == substr(err, 0, second_line_start_pos + 1)
      tail == substr(err, TailStart(over, Len(head[2])), Len(err))
  IN IF tail = OutOfRange THEN OutOfRange
     ELSE Returned(head[2] \o trunc \o tail[2])

InitMsgIdle ==
  /\ mpc = "idle"
  /\ formatted = FormatOk
  /\ error = <<>>
  /\ max_msg_len = CapLow
  /\ message = NoMessage

\* a call of conditionMessage_from_py_exception is about to be made
InitMsg ==
  /\ mpc = "called"
  /\ max_msg_len \in Caps
  /\ \/ formatted = FormatOk /\ error \in Errors(max_msg_len)
     \/ formatted \in 1..3 /\ error = <<>>
  /\ message = NoMessage

conditionMessage_from_py_exception ==
  /\ mpc = "called"
  /\ mpc' = "returned"
  /\ message' =
       IF formatted # FormatOk THEN Returned(Unknown(formatted))
       ELSE IF Len(error) > max_msg_len THEN Truncated(error, max_msg_len)
       ELSE Returned(error)
  /\ UNCHANGED <<formatted, error, max_msg_len>>

NextMsg == conditionMessage_from_py_exception

(***************************************************************************)
(* Part 4: the marshaller, py_to_r (Guest to Host) and r_to_py_cpp (Host   *)
(* to Guest).                                                              *)
(*                                                                         *)
(* A Guest value is described by what the type tests of py_to_r can see    *)
(* of it: its built-in base type, whether it is an instance of exactly     *)
(* that type or of a subclass, the attributes and the class relations the  *)
(* structural tests look for, whether it is a NumPy scalar and of which    *)
(* kind of dtype, and for a scalar its value.  NumPy is taken to be        *)
(* available (haveNumPy()).  The elements of containers and arrays are     *)
(* not modelled; the conversions of elements are further calls of py_to_r  *)
(* with the same convert.                                                  *)
(***************************************************************************)

\* what the structural tests look for
Attrs == {"_fields", "dict_instance", "__call__", "iterator", "pandas_na"}

\* kind of dtype of a NumPy scalar: in the table of narrow_array_typenum
\* as a number, as a string, as NPY_OBJECT, or not in the table
NotGeneric == "no"
Generics == {"num", "str", "obj", "other"}

Pow2(n) == 2 ^ n

IntBoundaries ==
  {0, Pow2(IntBits - 1), 0 - Pow2(IntBits - 1), Pow2(IntBits),
   Pow2(LongBits - 1), 0 - Pow2(LongBits - 1)}

\* Guest integers have any magnitude
GuestInts == {b + d : b \in IntBoundaries, d \in (0 - IntSpread)..IntSpread}

Guest(type, exact, attrs, generic, val) ==
  [type |-> type, exact |-> exact, attrs |-> attrs, generic |-> generic,
   val |-> val]

NoVal == <<"-">>

PyNone == Guest("NoneType", TRUE, {}, NotGeneric, NoVal)

GuestScalars ==
  {Guest("bool", TRUE, {}, NotGeneric, <<"bool", b>>) : b \in BOOLEAN}
  \cup {Guest("int", TRUE, {}, NotGeneric, <<"int", n>>) : n \in GuestInts}
  \cup {Guest("float", TRUE, {}, g, <<"float", f>>) :
          g \in {NotGeneric, "num"}, f \in {"1.5", "inf"}}
  \cup {Guest("complex", TRUE, {}, g, <<"complex", "1+2j">>) :
          g \in {NotGeneric, "num"}}
  \cup {Guest("str", TRUE, {}, g, <<"str", t>>) :
          g \in {NotGeneric, "str"}, t \in {"", "abc"}}

\* instances of the built-in container types themselves
GuestExact ==
  { Guest("list", TRUE, {}, NotGeneric, NoVal),
    Guest("tuple", TRUE, {}, NotGeneric, NoVal),
    Guest("dict", TRUE, {"dict_instance"}, NotGeneric, NoVal),
    Guest("PyCapsule", TRUE, {}, NotGeneric, <<"name", "r_object">>),
    Guest("PyCapsule", TRUE, {}, NotGeneric, <<"name", "other">>) }

\* instances of other classes: subclasses of built-in types, proxies,
\* functions, NumPy arrays and scalars, plain objects
GuestOther ==
  {Guest(t, FALSE, a, NotGeneric, NoVal) :
     t \in {"int", "float", "complex", "str", "list", "tuple", "dict",
            "ndarray", "bytearray", "object"},
     a \in SUBSET Attrs}
  \cup {Guest("object", FALSE, a, g, NoVal) :
          a \in SUBSET Attrs, g \in Generics}

GuestValues == {PyNone} \cup GuestScalars \cup GuestExact \cup GuestOther

\* ---- the type tests
py_is_none(v) == v = PyNone
PyBool_Check(v) == v.type = "bool"
PyLong_Check(v) == v.type \in {"bool", "int"}
PyFloat_Check(v) == v.type = "float"
PyComplex_Check(v) == v.type = "complex"
PyUnicode_Check(v) == v.type = "str"
PyList_CheckExact(v) == v.type = "list" /\ v.exact
PyList_Check(v) == v.type = "list"
PyTuple_CheckExact(v) == v.type = "tuple" /\ v.exact
PyDict_CheckExact(v) == v.type = "dict" /\ v.exact
PyByteArray_Check(v) == v.type = "bytearray"
isPyArray(v) == v.type = "ndarray"
isPyArrayScalar(v) == v.generic # NotGeneric
PyObject_HasAttrString(v, name) == name \in v.attrs
PyObject_IsInstance_dict(v) == "dict_instance" \in v.attrs
py_is_callable(v) == "__call__" \in v.attrs
is_pandas_na(v) == "pandas_na" \in v.attrs
is_r_object_capsule_never(v) == FALSE

\* PyCapsule_IsValid(capsule, r_object_string)
is_r_object_capsule(v) ==
  v.type = "PyCapsule" /\ v.val = <<"name", "r_object">>

\* the outcome of a test that can stop with an R error
Yes == "true"
No == "false"
Stop == "stop"

\* is_numpy_str: narrow_array_typenum stops on a dtype outside its table
is_numpy_str(v) ==
  IF ~isPyArrayScalar(v) THEN No
  ELSE IF v.generic = "other" THEN Stop
  ELSE IF v.generic = "str" THEN Yes ELSE No

is_python_str(v) == IF PyUnicode_Check(v) THEN Yes ELSE is_numpy_str(v)

r_scalar_type(v) ==
  IF PyBool_Check(v) THEN "LGLSXP"
  ELSE IF PyLong_Check(v) THEN "INTSXP"
  ELSE IF PyFloat_Check(v) THEN "REALSXP"
  ELSE IF PyComplex_Check(v) THEN "CPLXSXP"
  ELSE IF is_python_str(v) = Stop THEN Stop
  ELSE IF is_python_str(v) = Yes THEN "STRSXP"
  ELSE "NILSXP"

\* ---- C integer conversions
InRange(n, bits) == 0 - Pow2(bits - 1) <= n /\ n < Pow2(bits - 1)

\* PyInt_AsLong: -1 (and OverflowError set) when n does not fit a long
PyInt_AsLong(n) == IF InRange(n, LongBits) THEN n ELSE 0 - 1

\* a long stored into an int
AsInt(n) ==
  ((n + Pow2(IntBits - 1)) % Pow2(IntBits)) - Pow2(IntBits - 1)

\* ---- Host values
\* a Host value: what it is, the category of the Guest value it was made
\* for, the tests py_to_r evaluated, and for wrappers the convert flag
Host(form, category, tests, wconvert, of, val) ==
  [form |-> form, category |-> category, tests |-> tests,
   wconvert |-> wconvert, of |-> of, val |-> val]

NoHost == [form |-> "none"]
NoGuest == [type |-> "none"]
NoFlag == "-"

\* the tests of py_to_r in the order of its if / else-if chain
TestOrder ==
  << "py_is_none", "r_scalar_type", "PyList_CheckExact",
     "PyTuple_CheckExact", "_fields", "PyDict_CheckExact", "isPyArray",
     "isPyArrayScalar", "PyList_Check", "PyObject_IsInstance",
     "py_is_callable", "iterator", "PyByteArray_Check", "is_pandas_na",
     "is_r_object_capsule" >>

\* the tests evaluated when the chain is left at the k-th test: `_fields`
\* is looked up only when PyTuple_CheckExact has passed
Evaluated(v, k) ==
  LET RECURSIVE upto(_)
      upto(i) ==
        IF i = 0 THEN <<>>
        ELSE IF TestOrder[i] = "_fields" /\ ~PyTuple_CheckExact(v)
          THEN upto(i - 1)
          ELSE Append(upto(i - 1), TestOrder[i])
  IN upto(k)

\* py_ref(object, convert): the wrapper around the Guest object
py_ref(v, conv, category, k) ==
  Host("wrapper", category, Evaluated(v, k), conv, v, NoVal)

\* a materialized Host value
Materialized(v, category, k, val) ==
  Host("value", category, Evaluated(v, k), NoFlag, NoGuest, val)

py_to_r_passthrough(v, conv, r) ==
  IF conv THEN r ELSE py_ref(v, FALSE, "opaque", 0)

\* what the convert argument does to the result r of the chain: nothing
convert_applied(v, conv, r) == r

\* the scalar branch
scalar_to_r(v, scalarType) ==
  CASE scalarType = "LGLSXP" ->
         \* LogicalVector::create(x == Py_True)
         <<"LGLSXP", IF v.val[2] THEN 1 ELSE 0>>
    [] scalarType = "INTSXP" ->
         <<"INTSXP", AsInt(PyInt_AsLong(IF v.val = NoVal THEN 1 ELSE v.val[2]))>>
    [] scalarType = "REALSXP" -> <<"REALSXP", IF v.val = NoVal THEN "1.5" ELSE v.val[2]>>
    [] scalarType = "CPLXSXP" -> <<"CPLXSXP", IF v.val = NoVal THEN "1+2j" ELSE v.val[2]>>
    [] OTHER -> <<"STRSXP", IF v.val = NoVal THEN "abc" ELSE v.val[2]>>

\* py_to_r(x, convert): the if / else-if chain
py_to_r(v, conv) ==
  convert_applied(v, conv,
    IF py_is_none(v) THEN Materialized(v, "null", 1, <<"NULL">>)
    ELSE IF r_scalar_type(v) = Stop
      THEN Host("error", "none", Evaluated(v, 2), NoFlag, NoGuest, NoVal)
    ELSE IF r_scalar_type(v) # "NILSXP"
      THEN Materialized(v, "scalar", 2, scalar_to_r(v, r_scalar_type(v)))
    ELSE IF PyList_CheckExact(v)
      THEN Materialized(v, "list", 3, <<"VECSXP", "unnamed">>)
    ELSE IF PyTuple_CheckExact(v) /\ ~PyObject_HasAttrString(v, "_fields")
      THEN Materialized(v, "tuple", 5, <<"VECSXP", "unnamed">>)
    ELSE IF PyDict_CheckExact(v)
      THEN Materialized(v, "dict", 6, <<"VECSXP", "named">>)
    ELSE IF isPyArray(v)
      THEN Materialized(v, "array", 7, <<"array", "dim">>)
    ELSE IF isPyArrayScalar(v)
      THEN IF v.generic = "num"
             THEN Materialized(v, "array_scalar", 8, <<"REALSXP", "1.5">>)
             ELSE Host("error", "array_scalar", Evaluated(v, 8), NoFlag,
                       NoGuest, NoVal)
    ELSE IF PyList_Check(v)
      THEN Materialized(v, "list_subclass", 9, <<"VECSXP", "unnamed">>)
    ELSE IF PyObject_IsInstance_dict(v)
      THEN Materialized(v, "mapping", 10, <<"VECSXP", "named">>)
    ELSE IF py_is_callable(v)
      THEN Host("function", "callable", Evaluated(v, 11), conv, v, NoVal)
    ELSE IF PyObject_HasAttrString(v, "iterator")
      THEN py_ref(v, TRUE, "iterator", 12)
    ELSE IF PyByteArray_Check(v)
      THEN Materialized(v, "bytearray", 13, <<"RAWSXP">>)
    ELSE IF is_pandas_na(v)
      THEN Materialized(v, "pandas_na", 14, <<"REALSXP", "NA">>)
    ELSE IF is_r_object_capsule(v)
      THEN Materialized(v, "r_object", 15, <<"SEXP">>)
    ELSE py_ref(v, TRUE, "opaque", 15))

\* ---- Host to Guest
PyInt_FromLong(n) == Guest("int", TRUE, {}, NotGeneric, <<"int", n>>)
\* PyBool_FromLong(value): Py_True for every value but 0
PyBool_FromLong(value) ==
  Guest("bool", TRUE, {}, NotGeneric, <<"bool", value # 0>>)
PyFloat_FromDouble(f) == Guest("float", TRUE, {}, NotGeneric, <<"float", f>>)
PyComplex_FromDoubles(c) ==
  Guest("complex", TRUE, {}, NotGeneric, <<"complex", c>>)
as_python_str(t) == Guest("str", TRUE, {}, NotGeneric, <<"str", t>>)

\* r_to_py_cpp(x, convert) for the Host values py_to_r returns; atomic
\* vectors have length 1
r_to_py_cpp(r) ==
  IF r.val = <<"NULL">> THEN PyNone
  ELSE IF r.form = "function" THEN r.of      \* the py_object attribute
  ELSE IF r.form = "wrapper" THEN r.of       \* python.builtin.object
  ELSE IF r.val = <<"array", "dim">>
    THEN Guest("ndarray", TRUE, {}, NotGeneric, NoVal)
  ELSE IF r.val[1] = "INTSXP" THEN PyInt_FromLong(r.val[2])
  ELSE IF r.val[1] = "REALSXP" THEN PyFloat_FromDouble(r.val[2])
  ELSE IF r.val[1] = "CPLXSXP" THEN PyComplex_FromDoubles(r.val[2])
  ELSE IF r.val[1] = "LGLSXP" THEN PyBool_FromLong(r.val[2])
  ELSE IF r.val[1] = "STRSXP" THEN as_python_str(r.val[2])
  ELSE IF r.val[1] = "RAWSXP"
    THEN Guest("bytearray", TRUE, {}, NotGeneric, NoVal)
  ELSE IF r.val[1] = "VECSXP"
    THEN IF r.val[2] = "named"
           THEN Guest("dict", TRUE, {"dict_instance"}, NotGeneric, NoVal)
           ELSE Guest("list", TRUE, {}, NotGeneric, NoVal)
  ELSE \* any other Host value: py_capsule_new
       Guest("PyCapsule", TRUE, {}, NotGeneric, <<"name", "r_object">>)

InitConvIdle ==
  /\ cpc = "idle"
  /\ x = NoGuest
  /\ convert = FALSE
  /\ rvalue = NoHost
  /\ yvalue = NoGuest

\* py_to_r (or py_ref_to_r_with_convert) is about to be called
InitConv ==
  /\ cpc = "py_to_r"
  /\ x \in GuestValues
  /\ convert \in BOOLEAN
  /\ rvalue = NoHost
  /\ yvalue = NoGuest

\* the call of py_to_r
py_ref_to_r_with_convert ==
  /\ cpc = "py_to_r"
  /\ rvalue' = py_to_r(x, convert)
  /\ cpc' = IF rvalue'.form = "error" THEN "done" ELSE "r_to_py_cpp"
  /\ UNCHANGED <<x, convert, yvalue>>

\* the Host value goes back to the Guest
r_to_py_impl ==
  /\ cpc = "r_to_py_cpp"
  /\ yvalue' = r_to_py_cpp(rvalue)
  /\ cpc' = "done"
  /\ UNCHANGED <<x, convert, rvalue>>

NextConv == py_ref_to_r_with_convert \/ r_to_py_impl

(***************************************************************************)
(* Part 5: the Guest reference count of one opaque object over round       *)
(* trips: py_to_r takes its last branch (Py_IncRef, py_ref), r_to_py_cpp   *)
(* passes the wrapper straight through (Py_IncRef, return).  The wrapper   *)
(* releases its reference when the Host collects it; the reference         *)
(* r_to_py_cpp returned is released by whoever received it (PyPtr, or the  *)
(* container that took it over).                                           *)
(***************************************************************************)

Py_IncRef_dropped(n) == n

Py_IncRef(n) == n + 1

Py_DecRef(n) == n - 1

InitRefIdle ==
  /\ ob_refcnt = 1
  /\ ob_refcnt0 = 1
  /\ wrappers = 0
  /\ returnedRefs = 0
  /\ trips = 0

InitRef ==
  /\ ob_refcnt0 \in 1..MaxOtherRefs
  /\ ob_refcnt = ob_refcnt0
  /\ wrappers = 0
  /\ returnedRefs = 0
  /\ trips = 0

\* py_to_r on the object: the default branch
py_to_r_opaque ==
  /\ wrappers + trips < MaxRoundTrips
  /\ ob_refcnt' = Py_IncRef(ob_refcnt)
  /\ wrappers' = wrappers + 1
  /\ UNCHANGED <<ob_refcnt0, returnedRefs, trips>>

\* r_to_py_cpp on a wrapper: the python.builtin.object branch
r_to_py_cpp_object ==
  /\ wrappers > 0
  /\ trips < MaxRoundTrips
  /\ ob_refcnt' = Py_IncRef(ob_refcnt)
  /\ returnedRefs' = returnedRefs + 1
  /\ trips' = trips + 1
  /\ UNCHANGED <<ob_refcnt0, wrappers>>

\* the Host collects a wrapper: its finalizer releases the reference
wrapper_finalized ==
  /\ wrappers > 0
  /\ wrappers' = wrappers - 1
  /\ ob_refcnt' = Py_DecRef(ob_refcnt)
  /\ UNCHANGED <<ob_refcnt0, returnedRefs, trips>>

\* ~PyPtr: the owner of a returned reference releases it
PyPtr_destroyed ==
  /\ returnedRefs > 0
  /\ returnedRefs' = returnedRefs - 1
  /\ ob_refcnt' = Py_DecRef(ob_refcnt)
  /\ UNCHANGED <<ob_refcnt0, wrappers, trips>>

NextRef ==
  \/ py_to_r_opaque
  \/ r_to_py_cpp_object
  \/ wrapper_finalized
  \/ PyPtr_destroyed

(***************************************************************************)
(* Part 6: the capsule r_to_py_cpp makes for a Host external pointer.      *)
(***************************************************************************)

NoDestructor == "NULL"

\* the destructor r_extptr_capsule hands to PyCapsule_New
r_extptr_capsule_destructor == "free_r_extptr_capsule"

\* r_extptr_capsule(sexp): stop("Invalid pointer") when the address is
\* NULL, else preserve the SEXP and make the capsule
r_extptr_capsule(c, ptrIsNull) ==
  /\ s_is_python_initialized
  /\ Idle(MainThread)
  /\ capsule[c] = "none"
  /\ IF ptrIsNull
       THEN UNCHANGED <<preserved, capsule>>
       ELSE /\ Rcpp_precious_preserve(c)
            /\ capsule' = [capsule EXCEPT ![c] = "alive"]
  /\ UNCHANGED <<s_main_thread, s_is_python_initialized, gil, pc, obj,
                 waited_ms, removes, removedBy, abandoned, pending, callObj,
                 deletes, enqueued, runs, counter, returned>>

\* free_r_extptr_capsule on thread t, up to the first Py_AddPendingCall of
\* Rcpp_precious_remove_main_thread
free_r_extptr_capsule(t, c) ==
  /\ IF is_main_thread(t)
       THEN /\ Rcpp_precious_remove(t, c)
            /\ UNCHANGED <<gil, pc, obj, waited_ms>>
       ELSE /\ gil' = t
            /\ pc' = [pc EXCEPT ![t] = "fin_loop"]
            /\ obj' = [obj EXCEPT ![t] = c]
            /\ waited_ms' = [waited_ms EXCEPT ![t] = 0]
            /\ UNCHANGED <<preserved, removes, removedBy>>

\* the last Guest reference to the capsule is dropped on thread t: the
\* Guest runs the destructor the capsule was made with, if any
capsule_dealloc(t, c) ==
  /\ Idle(t)
  /\ capsule[c] = "alive"
  /\ capsule' = [capsule EXCEPT ![c] = "freed"]
  /\ IF r_extptr_capsule_destructor = NoDestructor
       THEN UNCHANGED <<gil, pc, obj, waited_ms, preserved, removes,
                        removedBy>>
       ELSE free_r_extptr_capsule(t, c)
  /\ UNCHANGED <<s_main_thread, s_is_python_initialized, abandoned, pending,
                 callObj, deletes, enqueued, runs, counter, returned>>

NextExt ==
  \/ \E c \in Capsules, n \in BOOLEAN : r_extptr_capsule(c, n)
  \/ \E t \in Threads, c \in Capsules : capsule_dealloc(t, c)
  \/ \E t \in Threads : Rcpp_precious_remove_main_thread(t)
  \/ \E e \in FreeSexpEntries : MakePendingCall(e)

(***************************************************************************)
(* Part 7: the retry loop of Rcpp_precious_remove_main_thread on one       *)
(* thread that is not the R thread, with its attempts and its messages     *)
(* counted.                                                                *)
(***************************************************************************)

FinWarnsAlways(w) == TRUE

\* `if ((waited_ms % 60000) == 0)`
FinWarns(w) == w % warn_every_ms = 0

InitFinIdle ==
  /\ fpc = "idle"
  /\ fin_waited_ms = 0
  /\ failed = 0
  /\ warnings = 0
  /\ errors = 0

\* the loop is entered: `size_t waited_ms = 0`
InitFin ==
  /\ fpc = "loop"
  /\ fin_waited_ms = 0
  /\ failed = 0
  /\ warnings = 0
  /\ errors = 0

\* Py_AddPendingCall(free_sexp, object) returns 0: the loop ends
Py_AddPendingCall_ok ==
  /\ fpc = "loop"
  /\ fpc' = "enqueued"
  /\ UNCHANGED <<fin_waited_ms, failed, warnings, errors>>

\* Py_AddPendingCall(free_sexp, object) fails: the body of the loop
Py_AddPendingCall_failed ==
  /\ fpc = "loop"
  /\ failed' = failed + 1
  /\ LET w == fin_waited_ms + wait_ms IN
     /\ fin_waited_ms' = w
     /\ IF FinWarns(w)
          THEN /\ warnings' = warnings + 1
               /\ UNCHANGED <<fpc, errors>>
          ELSE IF FinGiveUp(w)
            THEN /\ errors' = errors + 1
                 /\ fpc' = "abandoned"
                 /\ UNCHANGED warnings
            ELSE UNCHANGED <<fpc, warnings, errors>>

NextFin == Py_AddPendingCall_ok \/ Py_AddPendingCall_failed

(***************************************************************************)
(* Part 8: narrow_array_typenum and what its three callers make of the     *)
(* result.  Storage kinds are named by their NumPy enumerators.            *)
(***************************************************************************)

\* the kinds named in the switch of narrow_array_typenum
TableKinds ==
  {"NPY_BOOL", "NPY_BYTE", "NPY_UBYTE", "NPY_SHORT", "NPY_USHORT", "NPY_INT",
   "NPY_UINT", "NPY_ULONG", "NPY_ULONGLONG", "NPY_LONG", "NPY_LONGLONG",
   "NPY_HALF", "NPY_FLOAT", "NPY_DOUBLE", "NPY_CFLOAT", "NPY_CDOUBLE",
   "NPY_STRING", "NPY_UNICODE", "NPY_OBJECT"}

\* kinds NumPy has that the switch does not name
OtherKinds ==
  {"NPY_LONGDOUBLE", "NPY_CLONGDOUBLE", "NPY_VOID", "NPY_DATETIME",
   "NPY_TIMEDELTA", "NPY_CHAR", "NPY_USERDEF"}

Typenums == TableKinds \cup OtherKinds

NoTypenum == "-"
NotNarrowed == <<"none">>

\* `return typenum`
Returns(k) == <<"return", k>>

StoppedUnnamed(fmt, k) == <<"stop", fmt, NoTypenum>>

\* stop(fmt, typenum)
Stopped(fmt, k) == <<"stop", fmt, k>>

narrow_long_fixed(k) ==
  IF k = "NPY_LONG" THEN "NPY_LONG" ELSE "NPY_DOUBLE"

\* the `// double` group of cases
narrow_double_group(k) == "NPY_DOUBLE"

narrow_array_typenum(k) ==
  IF k = "NPY_BOOL" THEN Returns("NPY_BOOL")
  ELSE IF k \in {"NPY_BYTE", "NPY_UBYTE", "NPY_SHORT", "NPY_USHORT",
                 "NPY_INT"}
    THEN Returns("NPY_LONG")
  ELSE IF k \in {"NPY_UINT", "NPY_ULONG", "NPY_ULONGLONG", "NPY_LONG",
                 "NPY_LONGLONG", "NPY_HALF", "NPY_FLOAT", "NPY_DOUBLE"}
    THEN Returns(narrow_double_group(k))
  ELSE IF k \in {"NPY_CFLOAT", "NPY_CDOUBLE"} THEN Returns("NPY_CDOUBLE")
  ELSE IF k \in {"NPY_STRING", "NPY_UNICODE", "NPY_OBJECT"} THEN Returns(k)
  ELSE Stopped("Conversion from numpy array type %d is not supported", k)

\* the callers of narrow_array_typenum
Callers == {"is_numpy_str", "py_to_r array", "py_to_r scalar"}

\* what the caller does with the narrowed kind k
caller_switch(c, k) ==
  IF c = "is_numpy_str"
    THEN Returns(IF k \in {"NPY_STRING", "NPY_UNICODE"} THEN Yes ELSE No)
  ELSE IF k = "NPY_BOOL" THEN Returns("LGLSXP")
  ELSE IF k = "NPY_LONG" THEN Returns("INTSXP")
  ELSE IF k = "NPY_DOUBLE" THEN Returns("REALSXP")
  ELSE IF k = "NPY_CDOUBLE" THEN Returns("CPLXSXP")
  ELSE IF c = "py_to_r scalar"
    THEN Stopped("Unsupported array conversion from %d", k)
  ELSE IF k \in {"NPY_STRING", "NPY_UNICODE"} THEN Returns("STRSXP")
  ELSE Returns("VECSXP")

InitNarrowIdle ==
  /\ npc = "idle"
  /\ caller = "is_numpy_str"
  /\ typenum = NoTypenum
  /\ narrowed = NotNarrowed
  /\ renarrowed = NotNarrowed
  /\ used = NotNarrowed

\* a caller is about to narrow the kind of an array or of a scalar
InitNarrow ==
  /\ npc = "called"
  /\ caller \in Callers
  /\ typenum \in Typenums
  /\ narrowed = NotNarrowed
  /\ renarrowed = NotNarrowed
  /\ used = NotNarrowed

\* `int typenum = narrow_array_typenum(...)` and, unless it stopped, the
\* caller's use of the result
narrow_and_use ==
  /\ npc = "called"
  /\ narrowed' = narrow_array_typenum(typenum)
  /\ IF narrowed'[1] = "stop"
       THEN npc' = "stopped" /\ UNCHANGED used
       ELSE npc' = "used" /\ used' = caller_switch(caller, narrowed'[2])
  /\ UNCHANGED <<caller, typenum, renarrowed>>

\* narrow_array_typenum applied to a kind it returned
narrow_again ==
  /\ npc = "used"
  /\ renarrowed' = narrow_array_typenum(narrowed[2])
  /\ npc' = "renarrowed"
  /\ UNCHANGED <<caller, typenum, narrowed, used>>

NextNarrow == narrow_and_use \/ narrow_again

(***************************************************************************)
(* Part 9: r_to_py_numpy and the lifetime of the arrays it makes.  Array c *)
(* is the array made for Host value c; its base capsule is capsule c of    *)
(* part 1.                                                                 *)
(***************************************************************************)

\* the Host types is_convertible_to_numpy accepts, and one it does not
ArrayTypes == {"INTSXP", "REALSXP", "LGLSXP", "CPLXSXP", "STRSXP"}
HostTypes == ArrayTypes \cup {"VECSXP"}

NoType == "-"

\* PyArray_SetBaseObject(array, capsule.detach()) with the capsule's only
\* reference left to the scope guard: the capsule is gone at return
PyArray_SetBaseObject_scoped(c) ==
  /\ base' = [base EXCEPT ![c] = TRUE]
  /\ capsule' = [capsule EXCEPT ![c] = "freed"]

\* PyArray_SetBaseObject(array, capsule.detach()), or the assignment to
\* PyArray_BASE: the array owns the only reference to the capsule
PyArray_SetBaseObject(c) ==
  /\ base' = [base EXCEPT ![c] = TRUE]
  /\ capsule' = [capsule EXCEPT ![c] = "alive"]

InitNumpy ==
  /\ ndarray = [c \in Capsules |-> "none"]
  /\ base = [c \in Capsules |-> FALSE]
  /\ sexptype = [c \in Capsules |-> NoType]

\* r_to_py_numpy(x, convert) on the R thread; res is what
\* PyArray_SetBaseObject returns
r_to_py_numpy(c, type, res) ==
  /\ s_is_python_initialized
  /\ Idle(MainThread)
  /\ ndarray[c] = "none"
  /\ capsule[c] = "none"
  /\ sexptype[c] = NoType
  /\ sexptype' = [sexptype EXCEPT ![c] = type]
  /\ IF type \notin ArrayTypes
       THEN \* stop("Matrix type cannot be converted to python ...")
            UNCHANGED <<ndarray, base, capsule, preserved, removes,
                        removedBy>>
       ELSE IF type = "STRSXP"
         THEN \* the elements are converted, nothing is shared
              /\ ndarray' = [ndarray EXCEPT ![c] = "alive"]
              /\ UNCHANGED <<base, capsule, preserved, removes, removedBy>>
       ELSE IF res = 0
         THEN /\ Rcpp_precious_preserve(c)
              /\ PyArray_SetBaseObject(c)
              /\ ndarray' = [ndarray EXCEPT ![c] = "alive"]
              /\ UNCHANGED <<removes, removedBy>>
         ELSE \* the capsule is released by PyArray_SetBaseObject, its
              \* destructor removes the root at once; the array is not
              \* returned: throw PythonException(py_fetch_error())
              /\ capsule' = [capsule EXCEPT ![c] = "freed"]
              /\ removes' = [removes EXCEPT ![c] = @ + 1]
              /\ removedBy' = [removedBy EXCEPT ![c] = @ \cup {MainThread}]
              /\ ndarray' = [ndarray EXCEPT ![c] = "unreturned"]
              /\ UNCHANGED <<base, preserved>>
  /\ UNCHANGED <<s_main_thread, s_is_python_initialized, gil, pc, obj,
                 waited_ms, abandoned, pending, callObj, deletes, enqueued,
                 runs, counter, returned>>

\* the last Guest reference to array c is dropped on thread t: the array
\* releases its base object, the capsule's destructor runs
array_dealloc(t, c) ==
  /\ Idle(t)
  /\ ndarray[c] = "alive"
  /\ ndarray' = [ndarray EXCEPT ![c] = "released"]
  /\ IF base[c] /\ capsule[c] = "alive"
       THEN py_capsule_free(t, c)
       ELSE UNCHANGED dispVars
  /\ UNCHANGED <<base, sexptype>>

NextNumpy ==
  \/ \E c \in Capsules, type \in HostTypes, res \in {0, 0 - 1} :
       r_to_py_numpy(c, type, res)
  \/ \E t \in Threads, c \in Capsules : array_dealloc(t, c)
  \/ \E t \in Threads :
       Rcpp_precious_remove_main_thread(t) /\ UNCHANGED numpyVars
  \/ \E e \in FreeSexpEntries : MakePendingCall(e) /\ UNCHANGED numpyVars

(***************************************************************************)
(* Part 10: Host logical vectors on their way to the Guest.  A Host        *)
(* logical is an int: 0, 1 or NA_LOGICAL (the least int).                  *)
(***************************************************************************)

NA_LOGICAL == 0 - Pow2(IntBits - 1)

Logicals == {0, 1, NA_LOGICAL}

RECURSIVE LogicalVectors(_)
LogicalVectors(n) ==
  IF n = 0 THEN {<<>>}
  ELSE {Append(v, l) : v \in LogicalVectors(n - 1), l \in Logicals}

\* an int stored into a C++ bool
AsBool(value) == value # 0

\* the `type == LGLSXP` block of r_to_py_cpp
r_to_py_cpp_logical(sexp) ==
  IF Len(sexp) = 1
    THEN <<"bool", <<PyBool_FromLong(sexp[1]).val[2]>> >>
    ELSE <<"list", [i \in 1..Len(sexp) |-> PyBool_FromLong(sexp[i]).val[2]]>>

\* the `typenum == NPY_BOOL` block of r_to_py_numpy
r_to_py_numpy_logical(sexp) ==
  <<"ndarray", [i \in 1..Len(sexp) |-> AsBool(sexp[i])]>>

NoLogicals == <<"none", <<>> >>

InitLglIdle ==
  /\ lpc = "idle"
  /\ lgl = <<>>
  /\ dim = FALSE
  /\ pyLgl = NoLogicals

\* r_to_py_cpp is about to be called with a logical vector, with or without
\* a dim attribute
InitLgl ==
  /\ lpc = "r_to_py_cpp"
  /\ \E n \in 0..MaxLogicals : lgl \in LogicalVectors(n)
  /\ dim \in BOOLEAN
  /\ pyLgl = NoLogicals

\* r_to_py_cpp(x, convert) for a logical x
r_to_py_cpp_LGLSXP ==
  /\ lpc = "r_to_py_cpp"
  /\ lpc' = "done"
  /\ pyLgl' = IF dim THEN r_to_py_numpy_logical(lgl)
              ELSE r_to_py_cpp_logical(lgl)
  /\ UNCHANGED <<lgl, dim>>

NextLgl == r_to_py_cpp_LGLSXP

(***************************************************************************)
(* Part 11: py_to_r of a mapping.  A mapping is the sequence of its        *)
(* entries in iteration order; its keys are distinct Guest objects, and    *)
(* distinct keys can have the same string form.  Values are converted by   *)
(* further calls of py_to_r, here an opaque tag.                           *)
(***************************************************************************)

\* Guest keys: strings, an integer, an object whose str() is "a", and a
\* NumPy scalar of a kind outside the table of narrow_array_typenum
MapKeys ==
  {<<"str", "a">>, <<"str", "1">>, <<"int", "1">>, <<"object", "a">>,
   <<"numpy other", "1.0">>}

MapValues == {"v1", "v2"}

RECURSIVE Mappings(_)
Mappings(n) ==
  IF n = 0 THEN {<<>>}
  ELSE {Append(m, <<k, v>>) :
          m \in Mappings(n - 1), k \in MapKeys, v \in MapValues}

DistinctKeys(m) == \A i, j \in 1..Len(m) : i # j => m[i][1] # m[j][1]

\* is_python_str(key) for the keys above
key_is_python_str(k) ==
  IF k[1] = "str" THEN Yes
  ELSE IF k[1] = "numpy other" THEN Stop
  ELSE No

\* as_utf8_r_string(key), or as_utf8_r_string(PyObject_Str(key))
key_name(k) == k[2]

\* names[i] stored through an R environment: a later entry of the same name
\* replaces the earlier one
set_names_last_wins(names, values) ==
  LET kept == {i \in 1..Len(names) :
                 \A j \in (i + 1)..Len(names) : names[j] # names[i]}
      RECURSIVE pick(_)
      pick(i) ==
        IF i = 0 THEN <<>>
        ELSE IF i \in kept THEN Append(pick(i - 1), <<names[i], values[i]>>)
        ELSE pick(i - 1)
  IN pick(Len(names))

\* `list[idx] = ...; names[idx] = ...; list.names() = names`
set_names(names, values) ==
  [i \in 1..Len(names) |-> <<names[i], values[i]>>]

\* the dict branch and the mapping branch of py_to_r: the loop over the
\* entries
py_to_r_mapping(m) ==
  IF \E i \in 1..Len(m) : key_is_python_str(m[i][1]) = Stop
    THEN <<"stop">>
    ELSE <<"VECSXP",
           set_names([i \in 1..Len(m) |-> key_name(m[i][1])],
                     [i \in 1..Len(m) |-> m[i][2]])>>

NoList == <<"none">>

InitMapIdle ==
  /\ dpc = "idle"
  /\ mapBranch = "PyDict_CheckExact"
  /\ mapping = <<>>
  /\ rlist = NoList

\* py_to_r is about to be called with an exact dict or with an object that
\* is an instance of dict
InitMap ==
  /\ dpc = "py_to_r"
  /\ mapBranch \in {"PyDict_CheckExact", "PyObject_IsInstance"}
  /\ \E n \in 0..MaxEntries : mapping \in Mappings(n)
  /\ DistinctKeys(mapping)
  /\ rlist = NoList

py_to_r_dict ==
  /\ dpc = "py_to_r"
  /\ mapBranch = "PyDict_CheckExact"
  /\ dpc' = "done"
  /\ rlist' = py_to_r_mapping(mapping)
  /\ UNCHANGED <<mapBranch, mapping>>

py_to_r_dict_instance ==
  /\ dpc = "py_to_r"
  /\ mapBranch = "PyObject_IsInstance"
  /\ dpc' = "done"
  /\ rlist' = py_to_r_mapping(mapping)
  /\ UNCHANGED <<mapBranch, mapping>>

NextMap == py_to_r_dict \/ py_to_r_dict_instance

(***************************************************************************)
(* Part 12: the references py_to_r takes while it converts the elements of *)
(* a container.  Every element is a distinct Guest object of which the     *)
(* container holds one reference.  An element is converted to a Host       *)
(* scalar, wrapped (py_to_r's last branch), or is a NumPy scalar of an      *)
(* unsupported kind, for which py_to_r stops.                              *)
(***************************************************************************)

ElemKinds == {"scalar", "opaque", "unsupported"}

RECURSIVE Elements(_)
Elements(n) ==
  IF n = 0 THEN {<<>>}
  ELSE {Append(s, e) : s \in Elements(n - 1), e \in ElemKinds}

\* the branches of py_to_r that convert elements one by one
ContainerBranches ==
  {"PyList_CheckExact", "PyTuple_CheckExact", "PyDict_CheckExact",
   "PyList_Check", "PyObject_IsInstance"}

\* the first element py_to_r stops at, or Len + 1
FirstStop(es) ==
  IF \E i \in 1..Len(es) : es[i] = "unsupported"
    THEN CHOOSE i \in 1..Len(es) :
           /\ es[i] = "unsupported"
           /\ \A j \in 1..(i - 1) : es[j] # "unsupported"
    ELSE Len(es) + 1

\* new references to an element the branch obtains to fetch it:
\* PyList_GetItem, PyTuple_GetItem and PyDict_Next lend a reference,
\* PyObject_GetItem returns a new one
FetchedRefs(b) == IF b = "PyList_Check" THEN 1 ELSE 0

\* of those, the references the branch gives back
GivenBackRefs(b) == 0

\* references to temporaries (the copied dict, the items list and its
\* tuples, the index object) still held when the branch is left: the index
\* object `pi` is not released when the conversion of its element throws
TemporariesLeft(b, es) ==
  IF b = "PyList_Check" /\ FirstStop(es) <= Len(es) THEN 1 ELSE 0

InitElemIdle ==
  /\ kpc = "idle"
  /\ branch = "PyList_CheckExact"
  /\ elems = <<>>
  /\ el_refcnt = <<>>
  /\ el_owned = <<>>
  /\ temps = 0

\* py_to_r is about to be called with a container
InitElem ==
  /\ kpc = "py_to_r"
  /\ branch \in ContainerBranches
  /\ \E n \in 0..MaxElems : elems \in Elements(n)
  /\ el_refcnt = [i \in 1..Len(elems) |-> 1]
  /\ el_owned = [i \in 1..Len(elems) |-> 0]
  /\ temps = 0

\* py_to_r(x, convert) for a container x: the loop over its elements, up to
\* the return or to the element that makes it throw
py_to_r_elements ==
  /\ kpc = "py_to_r"
  /\ kpc' = IF FirstStop(elems) <= Len(elems) THEN "stopped" ELSE "returned"
  /\ el_owned' =
       [i \in 1..Len(elems) |->
          IF i < FirstStop(elems) /\ elems[i] = "opaque" THEN 1 ELSE 0]
  /\ el_refcnt' =
       [i \in 1..Len(elems) |->
          IF i > FirstStop(elems) THEN el_refcnt[i]
          ELSE el_refcnt[i] + FetchedRefs(branch) - GivenBackRefs(branch)
               + (IF i < FirstStop(elems) /\ elems[i] = "opaque"
                    THEN 1 ELSE 0)]
  /\ temps' = temps + TemporariesLeft(branch, elems)
  /\ UNCHANGED <<branch, elems>>

NextElem == py_to_r_elements

(***************************************************************************)
(* Part 13: the Host protect stack in py_fetch_error: the blocks that give *)
(* the exception its `trace` and its `call`.  The stack is modelled by its *)
(* depth.                                                                  *)
(***************************************************************************)

\* PROTECT(s): one more slot
PROTECT(d) == d + 1

\* UNPROTECT(l): l slots fewer; R signals a stack imbalance when fewer than
\* l are there
UNPROTECT(d, l) == IF d >= l THEN d - l ELSE 0 - 1

Imbalance == 0 - 1

\* get_r_trace: four PROTECTs, UNPROTECT(4)
get_r_trace(d) == UNPROTECT(PROTECT(PROTECT(PROTECT(PROTECT(d)))), 4)

\* get_current_call: three PROTECTs and UNPROTECT(3) when the static call
\* is built, none afterwards
get_current_call(d, built) ==
  IF built THEN d ELSE UNPROTECT(PROTECT(PROTECT(PROTECT(d))), 3)

InitProtIdle ==
  /\ ppc = "idle"
  /\ hasTrace = TRUE
  /\ hasCall = TRUE
  /\ callBuilt = TRUE
  /\ depth0 = 0
  /\ depth = 0

\* py_fetch_error has fetched the exception and walked its context chain
InitProt ==
  /\ ppc = "trace"
  /\ hasTrace \in BOOLEAN
  /\ hasCall \in BOOLEAN
  /\ callBuilt \in BOOLEAN
  /\ depth0 \in 0..MaxProtected
  /\ depth = depth0

\* `if (!PyObject_HasAttrString(excValue, "trace")) { ... }`
fetch_trace_block ==
  /\ ppc = "trace"
  /\ ppc' = "call"
  /\ depth' = IF hasTrace THEN depth
              ELSE UNPROTECT(PROTECT(get_r_trace(depth)), 1)
  /\ hasTrace' = TRUE
  /\ UNCHANGED <<hasCall, callBuilt, depth0>>

\* `if (!PyObject_HasAttrString(excValue, "call")) { ... }` and the return
fetch_call_block ==
  /\ ppc = "call"
  /\ IF hasCall
       THEN /\ depth' = depth
            /\ ppc' = "returned"
            /\ UNCHANGED callBuilt
       ELSE \* r_call is not protected; UNPROTECT(1)
            /\ depth' = UNPROTECT(get_current_call(depth, callBuilt), 1)
            /\ ppc' = IF depth' = Imbalance THEN "imbalance" ELSE "returned"
            /\ callBuilt' = TRUE
  /\ hasCall' = TRUE
  /\ UNCHANGED <<hasTrace, depth0>>

NextProt == fetch_trace_block \/ fetch_call_block

\* ------------------------------------------------------- specifications

\* the dispatcher and the capsule lifetime bridge
Init == InitDisp /\ InitErr /\ InitMsgIdle /\ InitConvIdle /\ InitRefIdle
  /\ InitFinIdle
  /\ InitNarrowIdle
  /\ InitNumpy
  /\ InitLglIdle
  /\ InitMapIdle
  /\ InitElemIdle
  /\ InitProtIdle

Next == NextDisp /\ UNCHANGED <<errVars, msgVars, convVars, refVars,
     finVars,
     narrowVars,
     numpyVars,
     lglVars,
     mapVars,
     elemVars,
     protVars>>

Spec == Init /\ [][Next]_vars

\* the dispatcher after py_initialize, with nothing in progress
Initialized ==
  /\ s_main_thread = MainThread
  /\ s_is_python_initialized = TRUE
  /\ gil = NoThread
  /\ pc = [t \in Threads |-> "idle"]
  /\ obj = [t \in Threads |-> NoObj]
  /\ waited_ms = [t \in Threads |-> 0]
  /\ capsule = [c \in Capsules |-> "none"]
  /\ preserved = {}
  /\ removes = [c \in Capsules |-> 0]
  /\ removedBy = [c \in Capsules |-> {}]
  /\ abandoned = {}
  /\ pending = [e \in Entries |-> 0]
  /\ callObj = [k \in Calls |-> "none"]
  /\ deletes = [k \in Calls |-> 0]
  /\ enqueued = {}
  /\ runs = [e \in Entries |-> 0]
  /\ counter = 0
  /\ returned = {}

\* the error translator, after py_initialize
InitE == Initialized /\ InitErr /\ InitMsgIdle /\ InitConvIdle /\ InitRefIdle
  /\ InitFinIdle
  /\ InitNarrowIdle
  /\ InitNumpy
  /\ InitLglIdle
  /\ InitMapIdle
  /\ InitElemIdle
  /\ InitProtIdle

NextE == NextErr /\ UNCHANGED <<dispVars, msgVars, convVars, refVars,
     finVars,
     narrowVars,
     numpyVars,
     lglVars,
     mapVars,
     elemVars,
     protVars>>

SpecErr == InitE /\ [][NextE]_vars

\* the message formatter
InitM == Initialized /\ InitErr /\ InitMsg /\ InitConvIdle /\ InitRefIdle
  /\ InitFinIdle
  /\ InitNarrowIdle
  /\ InitNumpy
  /\ InitLglIdle
  /\ InitMapIdle
  /\ InitElemIdle
  /\ InitProtIdle

NextM == NextMsg /\ UNCHANGED <<dispVars, errVars, convVars, refVars,
     finVars,
     narrowVars,
     numpyVars,
     lglVars,
     mapVars,
     elemVars,
     protVars>>

SpecMsg == InitM /\ [][NextM]_vars

\* the marshaller
InitC == Initialized /\ InitErr /\ InitMsgIdle /\ InitConv /\ InitRefIdle
  /\ InitFinIdle
  /\ InitNarrowIdle
  /\ InitNumpy
  /\ InitLglIdle
  /\ InitMapIdle
  /\ InitElemIdle
  /\ InitProtIdle

NextC == NextConv /\ UNCHANGED <<dispVars, errVars, msgVars, refVars,
     finVars,
     narrowVars,
     numpyVars,
     lglVars,
     mapVars,
     elemVars,
     protVars>>

SpecConv == InitC /\ [][NextC]_vars

\* round trips of an opaque object
InitR == Initialized /\ InitErr /\ InitMsgIdle /\ InitConvIdle /\ InitRef
  /\ InitFinIdle
  /\ InitNarrowIdle
  /\ InitNumpy
  /\ InitLglIdle
  /\ InitMapIdle
  /\ InitElemIdle
  /\ InitProtIdle

NextR == NextRef /\ UNCHANGED <<dispVars, errVars, msgVars, convVars,
     finVars,
     narrowVars,
     numpyVars,
     lglVars,
     mapVars,
     elemVars,
     protVars>>

SpecRef == InitR /\ [][NextR]_vars

\* capsules of Host external pointers
InitX == Initialized /\ InitErr /\ InitMsgIdle /\ InitConvIdle /\ InitRefIdle
  /\ InitFinIdle
  /\ InitNarrowIdle
  /\ InitNumpy
  /\ InitLglIdle
  /\ InitMapIdle
  /\ InitElemIdle
  /\ InitProtIdle

NextX == NextExt /\ UNCHANGED <<errVars, msgVars, convVars, refVars,
     finVars,
     narrowVars,
     numpyVars,
     lglVars,
     mapVars,
     elemVars,
     protVars>>

SpecExt == InitX /\ [][NextX]_vars

\* one run of the finalizer's retry loop
InitF == Initialized /\ InitErr /\ InitMsgIdle /\ InitConvIdle /\ InitRefIdle
  /\ InitFin
  /\ InitNarrowIdle
  /\ InitNumpy
  /\ InitLglIdle
  /\ InitMapIdle
  /\ InitElemIdle
  /\ InitProtIdle

NextF == NextFin /\ UNCHANGED <<dispVars, errVars, msgVars, convVars,
     refVars,
     narrowVars,
     numpyVars,
     lglVars,
     mapVars,
     elemVars,
     protVars>>

SpecFin == InitF /\ [][NextF]_vars

\* narrowing of storage kinds
InitN == Initialized /\ InitErr /\ InitMsgIdle /\ InitConvIdle /\ InitRefIdle
  /\ InitFinIdle /\ InitNarrow
  /\ InitNumpy
  /\ InitLglIdle
  /\ InitMapIdle
  /\ InitElemIdle
  /\ InitProtIdle

NextN == NextNarrow /\ UNCHANGED <<dispVars, errVars, msgVars, convVars,
     refVars, finVars,
     numpyVars,
     lglVars,
     mapVars,
     elemVars,
     protVars>>

SpecNarrow == InitN /\ [][NextN]_vars

\* arrays over Host buffers
InitA == Initialized /\ InitErr /\ InitMsgIdle /\ InitConvIdle /\ InitRefIdle
  /\ InitFinIdle /\ InitNarrowIdle /\ InitNumpy
  /\ InitLglIdle
  /\ InitMapIdle
  /\ InitElemIdle
  /\ InitProtIdle

NextA == NextNumpy /\ UNCHANGED <<errVars, msgVars, convVars,
     refVars, finVars, narrowVars,
     lglVars,
     mapVars,
     elemVars,
     protVars>>

SpecNumpy == InitA /\ [][NextA]_vars

\* Host logicals
InitL == Initialized /\ InitErr /\ InitMsgIdle /\ InitConvIdle /\ InitRefIdle
  /\ InitFinIdle /\ InitNarrowIdle /\ InitNumpy /\ InitLgl
  /\ InitMapIdle
  /\ InitElemIdle
  /\ InitProtIdle

NextL == NextLgl /\ UNCHANGED <<dispVars, errVars, msgVars, convVars,
     refVars, finVars, narrowVars, numpyVars,
     mapVars,
     elemVars,
     protVars>>

SpecLgl == InitL /\ [][NextL]_vars

\* mappings
InitD == Initialized /\ InitErr /\ InitMsgIdle /\ InitConvIdle /\ InitRefIdle
  /\ InitFinIdle /\ InitNarrowIdle /\ InitNumpy /\ InitLglIdle /\ InitMap
  /\ InitElemIdle
  /\ InitProtIdle

NextD == NextMap /\ UNCHANGED <<dispVars, errVars, msgVars, convVars,
     refVars, finVars, narrowVars, numpyVars, lglVars,
     elemVars,
     protVars>>

SpecMap == InitD /\ [][NextD]_vars

\* elements of containers
InitK == Initialized /\ InitErr /\ InitMsgIdle /\ InitConvIdle /\ InitRefIdle
  /\ InitFinIdle /\ InitNarrowIdle /\ InitNumpy /\ InitLglIdle /\ InitMapIdle
  /\ InitElem
  /\ InitProtIdle

NextK == NextElem /\ UNCHANGED <<dispVars, errVars, msgVars, convVars,
     refVars, finVars, narrowVars, numpyVars, lglVars, mapVars,
     protVars>>

SpecElem == InitK /\ [][NextK]_vars

\* the protect stack
InitP == Initialized /\ InitErr /\ InitMsgIdle /\ InitConvIdle /\ InitRefIdle
  /\ InitFinIdle /\ InitNarrowIdle /\ InitNumpy /\ InitLglIdle /\ InitMapIdle
  /\ InitElemIdle /\ InitProt

NextP == NextProt /\ UNCHANGED <<dispVars, errVars, msgVars, convVars,
     refVars, finVars, narrowVars, numpyVars, lglVars, mapVars, elemVars>>

SpecProt == InitP /\ [][NextP]_vars

(***************************************************************************)
(* Properties                                                              *)
(***************************************************************************)

\* the destructor of capsule c has returned and nothing of it is queued
Finalized(c) ==
  /\ capsule[c] = "freed"
  /\ \A t \in Threads : ~(pc[t] = "fin_loop" /\ obj[t] = c)
  /\ pending[FreeSexp(c)] = 0

\* the entry point of call k has returned and nothing of it is queued
CallSettled(k) ==
  /\ k \in returned
  /\ pending[CallPy(k)] = 0

\* thread t is inside the retry loop for entry e
InLoopFor(t, e) ==
  \/ e[1] = "free_sexp" /\ pc[t] = "fin_loop" /\ obj[t] = e[2]
  \/ e[1] = "call_python_function" /\ pc[t] = "call_loop" /\ obj[t] = e[2]

\* C1 (as stated): the Host value of every capsule is a GC root from
\* creation on, and once the capsule has been finalized (whatever the
\* thread, however often the enqueue failed) Rcpp_precious_remove has run
\* for that root exactly once.
C1_RemovedExactlyOnce ==
  \A c \in Capsules :
    /\ capsule[c] = "alive" => c \in preserved
    /\ removes[c] <= 1
    /\ Finalized(c) => removes[c] = 1

\* C1 (amended): the Host value of every capsule is a GC root from
\* creation until its removal; the root is removed at most once; after
\* finalization it has been removed exactly once, except when the
\* finalizer ran off the main thread and gave up enqueueing free_sexp past
\* the ceiling: then the root is never removed.
C1_RemovedOnceUnlessAbandoned ==
  \A c \in Capsules :
    /\ capsule[c] = "alive" => c \in preserved /\ removes[c] = 0
    /\ removes[c] <= 1
    /\ c \in preserved <=> (capsule[c] # "none" /\ removes[c] = 0)
    /\ Finalized(c) =>
         removes[c] = (IF FreeSexp(c) \in abandoned THEN 0 ELSE 1)

\* one capsule finalized off the main thread whose root was removed by the
\* pending call, and one whose finalizer gave up
C1_Witness ==
  /\ \E c \in Capsules : Finalized(c) /\ runs[FreeSexp(c)] = 1 /\ removes[c] = 1
  /\ \E c \in Capsules : Finalized(c) /\ FreeSexp(c) \in abandoned

\* C2: Rcpp_precious_remove for a capsule's root is only ever run by the
\* main thread; a capsule destructor running on another thread does not
\* remove the root itself, it only enqueues free_sexp (or gives up).
C2_RemovalOnMainThreadOnly ==
  \A c \in Capsules :
    /\ removedBy[c] \subseteq {MainThread}
    /\ \A t \in Workers :
         (pc[t] = "fin_loop" /\ obj[t] = c) => removes[c] = 0

\* a capsule finalized on a worker thread, its root removed by the main
\* thread through the pending call
C2_Witness ==
  \E c \in Capsules :
    /\ FreeSexp(c) \in enqueued
    /\ runs[FreeSexp(c)] = 1
    /\ removedBy[c] = {MainThread}

\* C3: every pending call (free_sexp for a capsule, call_python_function
\* for a call record) runs at most once, and only after a
\* Py_AddPendingCall for it has returned success; while its enqueue
\* attempts are still failing, or after it was given up, it has not run.
C3_AtMostOnceAfterEnqueue ==
  \A e \in Entries :
    /\ runs[e] <= 1
    /\ runs[e] + pending[e] <= 1
    /\ (runs[e] > 0 \/ pending[e] > 0) => e \in enqueued
    /\ (e \in abandoned \/ \E t \in Threads : InLoopFor(t, e)) =>
         (runs[e] = 0 /\ pending[e] = 0)

\* a call that ran once after its enqueue had failed at least once:
\* another call is still retrying while the first has run
C3_Witness ==
  /\ \E k \in Calls : runs[CallPy(k)] = 1 /\ CallPy(k) \in enqueued
  /\ \E t \in Threads : pc[t] = "call_loop" /\ waited_ms[t] > 0

\* the number of times the payload of entry e was released: the
\* preserved SEXP by Rcpp_precious_remove, the PythonCall by `delete call`
Released(e) == IF e[1] = "free_sexp" THEN removes[e[2]] ELSE deletes[e[2]]

\* entry e was handed to the dispatcher and the dispatcher is done with it
Settled(e) ==
  /\ e \in enqueued \cup abandoned
  /\ pending[e] = 0

\* C4 (as stated): the payload of a pending call is released exactly once
\* in every outcome, when the call has run and also when it was abandoned
\* past the retry ceiling.
C4_ReleasedExactlyOnce ==
  \A e \in Entries :
    /\ Released(e) <= 1
    /\ Settled(e) => Released(e) = 1

\* C4 (amended): the payload of a pending call is released at most once,
\* and exactly once when the call has run; a finalizer call abandoned past
\* the retry ceiling never releases its payload, and a
\* call_python_function call is never abandoned.
C4_ReleasedOnceWhenRun ==
  \A e \in Entries :
    /\ Released(e) <= 1
    /\ e \in enqueued \cup abandoned => Released(e) = runs[e]
    /\ Settled(e) => Released(e) = (IF e \in abandoned THEN 0 ELSE 1)
    /\ e \in abandoned => e[1] = "free_sexp"
    /\ e[1] = "call_python_function" =>
         (callObj[e[2]] = "deleted" <=> deletes[e[2]] = 1)

\* a call record deleted after its run, and an abandoned finalizer call
C4_Witness ==
  /\ \E k \in Calls : Settled(CallPy(k)) /\ deletes[k] = 1
  /\ \E c \in Capsules : Settled(FreeSexp(c)) /\ FreeSexp(c) \in abandoned

\* C5 (as stated): both retry loops stop once the elapsed wait has passed
\* the ceiling: no thread is still retrying with waited_ms beyond it.
C5_BothLoopsBounded ==
  \A t \in Threads : pc[t] # "idle" => waited_ms[t] <= ceiling_ms

\* C5 (amended): the finalizer loop stops once the elapsed wait has passed
\* the ceiling (it abandons the call at the first failed attempt that
\* brings waited_ms above 120000); the call loop has no ceiling and keeps
\* retrying until Py_AddPendingCall succeeds, and never abandons.
C5_FinalizerLoopBounded ==
  /\ \A t \in Threads : pc[t] = "fin_loop" => waited_ms[t] <= ceiling_ms
  /\ \A e \in abandoned : e[1] = "free_sexp"
  /\ \A k \in Calls : k \in returned => CallPy(k) \in enqueued

\* a finalizer that gave up, and a call loop still retrying past the
\* ceiling
C5_Witness ==
  /\ abandoned # {}
  /\ \E t \in Threads : pc[t] = "call_loop" /\ waited_ms[t] > ceiling_ms

\* C6: once the calls made through call_python_function_on_main_thread
\* have been enqueued and the main thread has drained the queue, every call
\* body has run exactly once and the counter equals the number of calls.
C6_CounterEqualsCalls ==
  (\A k \in Calls : pending[CallPy(k)] = 0) =>
     /\ counter = Cardinality(returned)
     /\ \A k \in returned : runs[CallPy(k)] = 1

\* all K calls enqueued and drained
C6_Witness ==
  /\ returned = Calls
  /\ \A k \in Calls : pending[CallPy(k)] = 0
  /\ counter = NCalls

\* C7 (as stated): call_python_function_on_main_thread returns at once,
\* without waiting on the pending-call queue: an invocation never sleeps.
C7_ReturnsImmediately ==
  \A t \in Threads : pc[t] = "call_loop" => waited_ms[t] = 0

\* C7 (amended): call_python_function_on_main_thread returns Py_None as
\* soon as the call has been queued, without waiting for it to run; while
\* Py_AddPendingCall fails it sleeps and retries, so it returns only after
\* an enqueue has succeeded.
C7_ReturnsOnceQueued ==
  \A k \in Calls :
    /\ k \in returned <=> CallPy(k) \in enqueued
    /\ (callObj[k] # "none" /\ k \notin returned) =>
         \E t \in Threads : pc[t] = "call_loop" /\ obj[t] = k
    /\ (k \in returned /\ runs[CallPy(k)] = 0) => pending[CallPy(k)] = 1

\* an invocation that has returned while its call is still queued, after
\* another one had to wait
C7_Witness ==
  /\ \E k \in Calls : k \in returned /\ runs[CallPy(k)] = 0
  /\ \E t \in Threads : pc[t] = "call_loop" /\ waited_ms[t] > 0

\* C8: call_r_function never raises: whatever its arguments and however
\* the R closure ends, it hands a (value, exception) pair to the Guest and
\* no exception leaves it.
C8_NeverRaises ==
  /\ callResult # Escaped
  /\ (lastOp = "call_r_function" /\ epc = "idle") => callResult[1] = "pair"

\* C9: when the pending-interrupt flag is set as py_fetch_error is
\* entered, the call ends with an R interrupt and no condition: both
\* interrupt flags are false afterwards, the Guest error indicator is
\* empty, and the exception in flight is neither annotated nor published.
C9_InterruptForwarded ==
  [][ (epc = "failed" /\ pythonInterruptsPending /\ epc' = "idle") =>
        /\ outcome' = "interrupt"
        /\ ~pythonInterruptsPending'
        /\ ~interruptsPending'
        /\ errIndicator' = NoExc
        /\ UNCHANGED <<py_last_exception, excCall, excTrace>> ]_vars

\* an interrupt was forwarded while an exception was in flight, and that
\* exception was dropped
C9_Witness ==
  /\ outcome = "interrupt"
  /\ epc = "idle"
  /\ \E e \in raised : excCall[e] = NoAttr /\ py_last_exception # e

Fetch == epc = "failed" /\ epc' = "idle"

\* C11 (as stated): after every py_fetch_error, whatever its outcome, the
\* py_last_exception slot holds the condition of the failure this call
\* fetched.
C11_SlotOverwrittenOnEveryFetch ==
  [][ Fetch => py_last_exception' = errIndicator ]_vars

\* C11 (amended): every py_fetch_error that returns a condition assigns it
\* to the py_last_exception slot, replacing that of an earlier fetch; a
\* fetch that ends as an R interrupt or as "Unknown Python error." leaves
\* the slot as it was.
C11_SlotHoldsReturnedCondition ==
  [][ Fetch =>
        /\ outcome' = "condition" <=>
             (~pythonInterruptsPending /\ errIndicator # NoExc)
        /\ IF outcome' = "condition"
             THEN py_last_exception' = errIndicator
             ELSE UNCHANGED py_last_exception ]_vars

\* a fetch has just published its condition over the condition of an
\* earlier fetch (an exception annotated at its own fetch)
C11_Witness ==
  /\ outcome = "condition"
  /\ touchedBy = "py_fetch_error"
  /\ py_last_exception # NoExc
  /\ \E e \in raised : e # py_last_exception /\ excCall[e] = e

\* the exceptions reachable from e through __context__, nearest first
RECURSIVE Chain(_)
Chain(e) ==
  IF context[e] = NoExc THEN <<>> ELSE <<context[e]>> \o Chain(context[e])

\* the step taken is a py_fetch_error that fetches exception b, which has
\* neither `call` nor `trace`
FetchOfBare(b) ==
  /\ Fetch
  /\ ~pythonInterruptsPending
  /\ errIndicator = b
  /\ excCall[b] = NoAttr
  /\ excTrace[b] = NoAttr

\* C12 (as stated): when B without annotations is fetched and any
\* exception A on its __context__ chain carries a call and a trace, the
\* condition for B carries A's call and A's trace, whatever the length of
\* the chain and wherever A is on it.
C12_AnyAnnotatedAncestorForwarded ==
  [][ \A b \in Excs : FetchOfBare(b) =>
        \A i \in DOMAIN Chain(b) :
          LET a == Chain(b)[i] IN
          (excCall[a] # NoAttr /\ excTrace[a] # NoAttr) =>
             /\ excCall'[b] = excCall[a]
             /\ excTrace'[b] = excTrace[a] ]_vars

\* C12 (amended): when B without annotations is fetched and some
\* exception on its __context__ chain carries a call and a trace, the
\* condition for B carries the call and the trace (the same objects) of
\* the nearest such exception, whatever the length of the chain; the
\* annotations of exceptions further down the chain are not looked at.
C12_NearestAnnotatedAncestorForwarded ==
  [][ \A b \in Excs : FetchOfBare(b) =>
        \A i \in DOMAIN Chain(b) :
          LET a == Chain(b)[i] IN
          ( /\ excCall[a] # NoAttr /\ excTrace[a] # NoAttr
            /\ \A j \in 1..(i - 1) :
                 excCall[Chain(b)[j]] = NoAttr /\ excTrace[Chain(b)[j]] = NoAttr ) =>
             /\ excCall'[b] = excCall[a]
             /\ excTrace'[b] = excTrace[a] ]_vars

\* the condition just returned for b carries the annotations of an
\* exception two links down its chain, across a link without annotations
\* at the time of the fetch
C12_Witness ==
  \E b \in raised :
    /\ outcome = "condition"
    /\ touchedBy = "py_fetch_error"
    /\ py_last_exception = b
    /\ Len(Chain(b)) >= 2
    /\ excCall[b] = Chain(b)[2]
    /\ excTrace[b] = Chain(b)[2]
    /\ excCall[Chain(b)[1]] = NoAttr

\* C13: every py_fetch_error that returns a condition leaves the exception
\* value with both a `call` and a `trace`: one it already had is kept, one
\* copied from the chain is kept, and a missing one is captured at this
\* fetch; no returned condition lacks either.
C13_CallAndTracePresent ==
  /\ [] ( /\ py_last_exception # NoExc =>
               /\ excCall[py_last_exception] # NoAttr
               /\ excTrace[py_last_exception] # NoAttr
          /\ \A e \in Excs : excCall[e] # NoAttr <=> excTrace[e] # NoAttr
          /\ \A e \in Excs : excCall[e] # NoAttr => e \in raised )
  /\ [][ \A e \in Excs :
           (Fetch /\ outcome' = "condition" /\ errIndicator = e) =>
             /\ excCall'[e] # NoAttr /\ excTrace'[e] # NoAttr
             /\ excCall[e] # NoAttr => excCall'[e] = excCall[e]
             /\ excTrace[e] # NoAttr => excTrace'[e] = excTrace[e]
             /\ (excCall[e] = NoAttr /\
                 \A i \in DOMAIN Chain(e) : excCall[Chain(e)[i]] = NoAttr) =>
                   excCall'[e] = CapturedAt(e)
             /\ (excTrace[e] = NoAttr /\
                 \A i \in DOMAIN Chain(e) : excTrace[Chain(e)[i]] = NoAttr) =>
                   excTrace'[e] = CapturedAt(e) ]_vars

\* two returned conditions: one whose attributes were captured at its own
\* fetch and one that carries attributes copied from its chain
C13_Witness ==
  /\ outcome = "condition"
  /\ touchedBy = "py_fetch_error"
  /\ \E e \in raised : excCall[e] = e /\ excTrace[e] = e
  /\ \E e \in raised : excCall[e] \notin {NoAttr, e} /\ context[e] # NoExc

\* s is a prefix of t
IsPrefix(s, t) == Len(s) <= Len(t) /\ SubSeq(t, 1, Len(s)) = s

\* s is a suffix of t
IsSuffix(s, t) ==
  Len(s) <= Len(t) /\ SubSeq(t, Len(t) - Len(s) + 1, Len(t)) = s

\* the first two newline-delimited lines of s, with their newlines
FirstTwoLines(s) ==
  LET nls == {i \in 1..Len(s) : s[i] = NL} IN
  IF Cardinality(nls) < 2 THEN s
  ELSE LET n1 == CHOOSE i \in nls : \A j \in nls : i <= j
           n2 == CHOOSE i \in nls \ {n1} : \A j \in nls \ {n1} : i <= j
       IN SubSeq(s, 1, n2)

C15_TruncatedFromTheMiddle ==
  (mpc = "returned" /\ formatted = FormatOk /\ Len(error) > max_msg_len) =>
     /\ message[1] = "string"
     /\ IsPrefix(FirstTwoLines(error), message[2])
     /\ \E k \in 1..Len(error) :
          IsSuffix(SubSeq(error, Len(error) - k + 1, Len(error)), message[2])

\* py_to_r has returned or stopped
Converted == cpc \in {"r_to_py_cpp", "done"}

\* C16 (as stated): py_to_r called with convert = FALSE returns an opaque
\* passthrough wrapper for every Guest value, whatever its category;
\* nothing is materialized into a Host value.
C16_NoConvertGivesWrapper ==
  (Converted /\ ~convert /\ rvalue.form # "error") =>
     /\ rvalue.form = "wrapper"
     /\ rvalue.category = "opaque"

\* C16 (amended): py_to_r materializes by category whatever convert is:
\* the Host value it returns for a Guest value is the same for convert =
\* FALSE and convert = TRUE, except that the R function made for a
\* callable records the flag; only iterators and values of no other
\* category come back as wrappers, and those wrappers carry convert =
\* TRUE.
C16_ConvertOnlyPassedOn ==
  Converted =>
     /\ rvalue.form = "wrapper" <=> rvalue.category \in {"iterator", "opaque"}
     /\ rvalue.form = "function" <=> rvalue.category = "callable"
     /\ rvalue.form = "wrapper" => rvalue.wconvert = TRUE /\ rvalue.of = x
     /\ rvalue.form = "function" => rvalue.wconvert = convert /\ rvalue.of = x
     /\ [rvalue EXCEPT !.wconvert = NoFlag] =
          [py_to_r(x, ~convert) EXCEPT !.wconvert = NoFlag]

\* with convert = FALSE, a scalar and a subclassed list were materialized
C16_Witness ==
  /\ Converted
  /\ ~convert
  /\ rvalue.form = "value"
  /\ rvalue.category \in {"scalar", "list_subclass"}

\* v belongs to category c, by what v is (not by the order of the tests)
Satisfies(v, c) ==
  CASE c = "null" -> v.type = "NoneType"
    [] c = "scalar" ->
         v.type \in {"bool", "int", "float", "complex", "str"}
           \/ v.generic = "str"
    [] c = "list" -> v.type = "list" /\ v.exact
    [] c = "tuple" -> v.type = "tuple" /\ v.exact /\ "_fields" \notin v.attrs
    [] c = "dict" -> v.type = "dict" /\ v.exact
    [] c = "array" -> v.type = "ndarray"
    [] c = "array_scalar" -> v.generic # NotGeneric
    [] c = "list_subclass" -> v.type = "list"
    [] c = "mapping" -> "dict_instance" \in v.attrs
    [] c = "callable" -> "__call__" \in v.attrs
    [] c = "iterator" -> "iterator" \in v.attrs
    [] c = "bytearray" -> v.type = "bytearray"
    [] c = "pandas_na" -> "pandas_na" \in v.attrs
    [] c = "r_object" -> v.type = "PyCapsule" /\ v.val = <<"name", "r_object">>
    [] OTHER -> TRUE

\* the first category of the precedence order that v belongs to
FirstOf(order, v) ==
  order[CHOOSE i \in DOMAIN order :
          /\ Satisfies(v, order[i])
          /\ \A j \in 1..(i - 1) : ~Satisfies(v, order[j])]

\* the precedence of the specification
ClaimedOrder ==
  << "null", "scalar", "list", "tuple", "dict", "array", "array_scalar",
     "list_subclass", "mapping", "callable", "iterator", "bytearray",
     "pandas_na", "opaque" >>

\* the precedence with the Host capsule before the opaque fallback
CapsuleOrder ==
  << "null", "scalar", "list", "tuple", "dict", "array", "array_scalar",
     "list_subclass", "mapping", "callable", "iterator", "bytearray",
     "pandas_na", "r_object", "opaque" >>

ExactTests == {"PyList_CheckExact", "PyTuple_CheckExact", "PyDict_CheckExact"}
StructuralTests ==
  {"_fields", "PyObject_IsInstance", "py_is_callable", "iterator",
   "is_pandas_na"}

\* test a comes before test b in the sequence of evaluated tests
Before(tests, a, b) ==
  \E i, j \in DOMAIN tests : i < j /\ tests[i] = a /\ tests[j] = b

Tested(tests, a) == \E i \in DOMAIN tests : tests[i] = a

\* C17 (as stated): py_to_r assigns every Guest value the first category
\* it belongs to in the order null, scalar, exact list, exact tuple without
\* named fields, exact dict, numeric array, numeric-array scalar,
\* subclassed list, mapping-protocol object, callable, iterator, byte
\* sequence, null-like sentinel, opaque; and a structural test (the
\* `_fields` lookup of the tuple test apart) is only evaluated after every
\* exact-type test has been evaluated and has failed.
C17_ClaimedPrecedence ==
  Converted =>
     /\ rvalue.category = FirstOf(ClaimedOrder, x)
     /\ \A s \in StructuralTests \ {"_fields"} : Tested(rvalue.tests, s) =>
          \A e \in ExactTests :
            /\ Before(rvalue.tests, e, s)
            /\ ~Satisfies(x, IF e = "PyList_CheckExact" THEN "list"
                             ELSE IF e = "PyDict_CheckExact" THEN "dict"
                             ELSE "tuple")

\* C17 (amended): py_to_r assigns a Guest value the first category it
\* belongs to in the order null, scalar, exact list, exact tuple without
\* named fields, exact dict, numeric array, numeric-array scalar,
\* subclassed list, mapping-protocol object, callable, iterator, byte
\* sequence, null-like sentinel, Host capsule (unwrapped to its Host
\* value), opaque; a NumPy scalar whose dtype is outside the table of
\* narrow_array_typenum gets no category, the scalar test stops with an
\* error.  The tests for mapping, callable, iterator and null-like
\* sentinel are evaluated only after the three exact tests (list, tuple,
\* dict) have failed; the `_fields` lookup is made only on an exact tuple,
\* before the exact dict test; the Host capsule test comes after the
\* structural tests.
C17_PrecedenceWithCapsule ==
  Converted =>
     /\ rvalue.category # "none" =>
          rvalue.category = FirstOf(CapsuleOrder, x)
     /\ rvalue.category = "none" <=>
          (x.generic = "other" /\
           x.type \notin {"NoneType", "bool", "int", "float", "complex", "str"})
     /\ \A s \in StructuralTests \ {"_fields"} :
          Tested(rvalue.tests, s) =>
            \A e \in ExactTests :
              /\ Before(rvalue.tests, e, s)
              /\ x.type \in {"list", "tuple", "dict"} => ~x.exact
     /\ Tested(rvalue.tests, "_fields") =>
          /\ x.type = "tuple" /\ x.exact
          /\ ~Tested(rvalue.tests, "PyDict_CheckExact")
     /\ Tested(rvalue.tests, "is_r_object_capsule") =>
          \A s \in StructuralTests \ {"_fields"} :
            Before(rvalue.tests, s, "is_r_object_capsule")

\* a subclassed list that is also a mapping, callable and an iterator was
\* converted as a subclassed list
C17_Witness ==
  /\ Converted
  /\ x.type = "list"
  /\ ~x.exact
  /\ {"dict_instance", "__call__", "iterator"} \subseteq x.attrs
  /\ rvalue.category = "list_subclass"

\* C19: scalar round trip: for every Guest scalar (boolean, integer of any
\* magnitude, float, complex, string), r_to_py_cpp(py_to_r(v)) is a scalar
\* of the same kind and the same value, also for an integer that does not
\* fit the Host's int storage.
C19_ScalarRoundTrip ==
  (cpc = "done" /\ x \in GuestScalars) =>
     /\ rvalue.form = "value"
     /\ yvalue.val = x.val

\* C18 (as stated): the capsule made for a Host external pointer has no
\* finalizer: once the last Guest reference to it is dropped, no Host-side
\* release has happened for its value and no pending call was made, is being
\* made or has been run for it.
C18_DropTriggersNothing ==
  \A c \in Capsules :
    capsule[c] = "freed" =>
      /\ removes[c] = 0
      /\ c \in preserved
      /\ FreeSexp(c) \notin enqueued
      /\ runs[FreeSexp(c)] = 0
      /\ \A t \in Threads : ~InLoopFor(t, FreeSexp(c))

\* C18 (amended): r_extptr_capsule preserves the Host value and makes the
\* capsule with free_r_extptr_capsule as its destructor.  While the capsule
\* is alive its value is a GC root; once the capsule has been finalized the
\* root was removed exactly once, by the R thread, directly or through a
\* pending call, unless the enqueue was given up; a NULL address creates
\* nothing and preserves nothing.
C18_DropReleasesThroughDestructor ==
  \A c \in Capsules :
    /\ capsule[c] = "none" => c \notin preserved /\ removes[c] = 0
    /\ capsule[c] = "alive" => c \in preserved /\ removes[c] = 0
    /\ removes[c] <= 1
    /\ removedBy[c] \subseteq {MainThread}
    /\ Finalized(c) =>
         \/ removes[c] = 1 /\ c \notin preserved
         \/ FreeSexp(c) \in abandoned /\ removes[c] = 0

\* a capsule dropped off the R thread whose release went through one pending
\* call, and one dropped on the R thread
C18_Witness ==
  \E c, d \in Capsules :
    /\ c # d
    /\ Finalized(c) /\ runs[FreeSexp(c)] = 1 /\ removes[c] = 1
    /\ c \notin preserved
    /\ Finalized(d) /\ runs[FreeSexp(d)] = 0 /\ removes[d] = 1

\* C20: reference-count conservation.  Every live Host wrapper and every
\* unreleased returned reference holds exactly one Guest reference to the
\* opaque object, so whenever all of them have been released, after any
\* number of round trips, the object's reference count is what it was
\* before the first round trip.
C20_RefcountConserved ==
  /\ ob_refcnt = ob_refcnt0 + wrappers + returnedRefs
  /\ (wrappers = 0 /\ returnedRefs = 0) => ob_refcnt = ob_refcnt0

\* the most round trips made, everything released
C20_Witness ==
  /\ trips = MaxRoundTrips
  /\ wrappers = 0
  /\ returnedRefs = 0
  /\ ob_refcnt = ob_refcnt0

\* C30: truncation never fails: for every message longer than the cap the
\* start of the kept tail lies within the message, so substr does not throw
\* and a message is returned, also when the first two lines alone are
\* longer than the cap less 37.
C30_TruncationNeverFails ==
  (mpc = "returned" /\ formatted = FormatOk /\ Len(error) > max_msg_len) =>
     /\ message # OutOfRange
     /\ TailStart(Len(error) - max_msg_len,
                  find(error, find(error, 0) + 1) + 1) <= Len(error)

\* C25: in the finalizer's retry loop, with 100 ms slept per failed attempt,
\* a liveness warning has been written for exactly the multiples of 60,000
\* ms the accumulated wait has passed through, and the call is abandoned
\* only once the wait exceeds 120,000 ms: at 120,100 ms, after exactly 1,201
\* failed attempts and exactly 2 warnings, with one error line, and never
\* earlier.
C25_WarnsEachMinuteAbandonsPastCeiling ==
  /\ fin_waited_ms = failed * 100
  /\ warnings = fin_waited_ms \div 60000
  /\ fpc = "abandoned" <=> errors = 1
  /\ errors <= 1
  /\ fpc = "abandoned" =>
       /\ fin_waited_ms = 120100
       /\ failed = 1201
       /\ warnings = 2
  /\ fpc = "loop" => fin_waited_ms <= 120000

\* the enqueue failed until the call was abandoned
C25_Witness ==
  /\ fpc = "abandoned"
  /\ failed = 1201
  /\ warnings = 2

\* the four canonical kinds, and the kinds that are left alone
Canonical == {"NPY_BOOL", "NPY_LONG", "NPY_DOUBLE", "NPY_CDOUBLE"}
Structural == {"NPY_STRING", "NPY_UNICODE", "NPY_OBJECT"}

Narrowing == npc \in {"stopped", "used", "renarrowed"}

C29_NarrowIdempotent ==
  npc = "renarrowed" => renarrowed = narrowed

\* C29 (amended): boolean, double, double complex and the three structural
\* kinds are fixed points of narrow_array_typenum; native long is not: it
\* narrows to double, so narrowing twice takes byte, unsigned byte, short,
\* unsigned short and int to double.  Narrowing is stable from the second
\* application on.
C29_FixedPointsButLong ==
  npc = "renarrowed" =>
     /\ renarrowed[1] = "return"
     /\ narrowed[2] # "NPY_LONG" => renarrowed = narrowed
     /\ narrowed[2] = "NPY_LONG" => renarrowed = Returns("NPY_DOUBLE")
     /\ narrow_array_typenum(renarrowed[2]) = renarrowed

\* a short narrowed to long and then to double
C29_Witness ==
  /\ npc = "renarrowed"
  /\ typenum = "NPY_SHORT"
  /\ narrowed = Returns("NPY_LONG")
  /\ renarrowed = Returns("NPY_DOUBLE")

\* C23: while an array that r_to_py_numpy returned for a non-string Host
\* array exists, a capsule holding the Host value is its base object and
\* the Host value is preserved: the root has not been removed, and no
\* removal is queued or being queued, before the array is released.
C23_HostPreservedWhileArrayAlive ==
  \A c \in Capsules :
    (ndarray[c] = "alive" /\ sexptype[c] # "STRSXP") =>
       /\ base[c]
       /\ capsule[c] = "alive"
       /\ c \in preserved
       /\ removes[c] = 0
       /\ pending[FreeSexp(c)] = 0
       /\ \A t \in Threads : ~InLoopFor(t, FreeSexp(c))

\* one array over a Host buffer still alive, another released off the R
\* thread whose root was then removed through a pending call
C23_Witness ==
  \E c, d \in Capsules :
    /\ ndarray[c] = "alive" /\ sexptype[c] = "REALSXP" /\ c \in preserved
    /\ ndarray[d] = "released" /\ sexptype[d] = "LGLSXP"
    /\ runs[FreeSexp(d)] = 1 /\ removes[d] = 1 /\ d \notin preserved

\* C28: a Host logical keeps its truth value on the way to the Guest and a
\* missing value never becomes a truth: FALSE gives False, TRUE gives True
\* and NA does not give True, for a scalar, for the elements of a list and
\* for the elements of a boolean array.
C28_NAIsNeverTrue ==
  lpc = "done" =>
    \A i \in 1..Len(lgl) :
      /\ lgl[i] = 0 => pyLgl[2][i] = FALSE
      /\ lgl[i] = 1 => pyLgl[2][i] = TRUE
      /\ lgl[i] = NA_LOGICAL => pyLgl[2][i] # TRUE

\* C24: py_to_r of a mapping with n entries returns a named Host list with
\* exactly n positions, one per entry in iteration order, each named by the
\* string form of its key and holding the converted value of that entry;
\* entries whose keys have the same string form keep separate positions,
\* in the exact-dict branch and in the mapping-protocol branch alike.  (A
\* key that is a NumPy scalar of an unsupported kind stops the conversion:
\* no list is returned.)
C24_OnePositionPerEntry ==
  (dpc = "done" /\ rlist # <<"stop">>) =>
     /\ rlist[1] = "VECSXP"
     /\ Len(rlist[2]) = Len(mapping)
     /\ \A i \in 1..Len(mapping) :
          /\ rlist[2][i][1] = key_name(mapping[i][1])
          /\ rlist[2][i][2] = mapping[i][2]

\* the keys "1" and 1 of one mapping gave two positions named "1" holding
\* different values, in the mapping-protocol branch
C24_Witness ==
  /\ dpc = "done"
  /\ mapBranch = "PyObject_IsInstance"
  /\ rlist[1] = "VECSXP"
  /\ \E i, j \in 1..Len(mapping) :
       /\ i < j
       /\ mapping[i][1] = <<"str", "1">> /\ mapping[j][1] = <<"int", "1">>
       /\ rlist[2][i] = <<"1", "v1">> /\ rlist[2][j] = <<"1", "v2">>

\* C21: every reference py_to_r obtains while it converts a container is
\* released or handed to an owner on every exit path: when py_to_r has
\* returned or thrown, no element's reference count is higher than before
\* except by the references owned by returned wrappers, and the bridge
\* holds no reference to a temporary; in every branch, the subclassed-list
\* branch included.
C21_NoReferenceLeft ==
  kpc \in {"returned", "stopped"} =>
     /\ \A i \in 1..Len(elems) : el_refcnt[i] = 1 + el_owned[i]
     /\ temps = 0

\* C26: py_fetch_error leaves the protect stack balanced: whether the
\* exception lacks `trace`, `call`, both or neither, as many slots are
\* released as were protected, and the depth of the stack at return is its
\* depth at entry.
C26_ProtectStackBalanced ==
  /\ ppc # "imbalance"
  /\ ppc = "returned" => depth = depth0

\* the step taken is a probe with a fallback: py_get_attr_impl or
\* py_get_item_impl with silent = TRUE, or py_len_impl with a default
Probe == touchedBy' \in {"PyErrorScopeGuard", "py_len_impl"}

\* C27: a probe with a fallback leaves the Guest exception state as it
\* found it: an error that was pending before the call is still pending,
\* unchanged, after it, whether the probe succeeded or failed.
C27_ProbesKeepPendingError ==
  [][ (Probe /\ errIndicator # NoExc) => errIndicator' = errIndicator ]_vars

====
